---- MODULE Spec2Model ----
(***************************************************************************)
(* Provider orchestrator of HustleSynth/aibot (APIOrchestrator,            *)
(* src/src/commands/register.ts lines 265-835): provider registry, rate    *)
(* windows, circuit breaker with timer recovery, response cache with lazy  *)
(* expiry and periodic sweep, statistics.                                  *)
(*                                                                         *)
(* Time is the value of Date.now() in milliseconds.  JavaScript runs one   *)
(* callback at a time, so each action is the code between two awaits.      *)
(***************************************************************************)
EXTENDS Integers, Sequences, FiniteSets, TLC

(***************************************************************************)
(* Bounds of the model.                                                    *)
(***************************************************************************)
\* the clock advances by at most TickMs per Tick step
TickMs == 30000
\* InitServe: the callers stop after MaxTicks * TickMs milliseconds, start
\* no call once MaxAttempts attempts are recorded or running, and every rate
\* budget of the registry is capped at MaxBudget requests per window
MaxTicks == 3
MaxAttempts == 4
MaxBudget == 1
\* InitBreaker: the same three bounds
BreakerTicks == 14
BreakerAttempts == 11
BreakerBudget == 5
\* InitLive: the first two
LiveTicks == 1
LiveAttempts == 6
\* config.memory.maxEntries as configured in the model (200 in the default
\* configuration)
MaxEntries == 2
\* InitMemory: the entries created by update*Memory, the restarts of the
\* process, and the database operations awaited at one time
MaxCreated == 3
MaxRestarts == 1
MaxPending == 1
\* InitFallback: the same three bounds
FallbackTicks == 0
FallbackAttempts == 10
FallbackBudget == 6
\* InitExpiry: the same three bounds
ExpiryTicks == 3
ExpiryAttempts == 7
ExpiryBudget == 6
\* config.performance.cacheTTL as configured in the model (3600000 in the
\* default configuration, 1000 in the scenario of the specification)
CacheTTL == 30000
\* stats.totalLatency of a provider stays within this many TickMs in each
\* environment: an attempt that would record more is not settled
MaxLatency == 2
BreakerLatency == 1
ExpiryLatency == 2
FallbackLatency == 0
LiveLatency == 6
\* InitModal: the bounds of InitServe
ModalTicks == 0
ModalAttempts == 8
ModalBudget == 6
ModalLatency == 0
\* InitCommands: the commands received
MaxCommands == 3
\* InitShutdown: the signals and uncaught exceptions the process receives
MaxSignals == 3
\* InitRetry: the largest maxAttempts handed to retry
MaxRetryAttempts == 4

(***************************************************************************)
(* Program constants.                                                      *)
(***************************************************************************)
FailureThreshold == 5
CoolDown == 300000
CleanupInterval == 60000
ApiTimeout == 30000
\* retry's default arguments
DefaultAttempts == 3
DefaultDelay == 1000

Slots == {1, 2}
Prompts == {"a", "b"}
Kinds == {"text", "image"}

Min(a, b) == IF a <= b THEN a ELSE b

\* Registration order of initializeProviders (insertion order of the Map).
Names ==
    <<"openrouter", "huggingface", "cohere", "googleai", "groq", "mistral",
      "deepai", "stability">>

Providers == {Names[i] : i \in 1..Len(Names)}

\* The static part of every AIProvider record handed to registerProvider.
Registry ==
    [p \in Providers |->
        CASE p = "openrouter"  -> [type |-> "text", priority |-> 1,
                                   requests |-> 200, window |-> 60000]
          [] p = "huggingface" -> [type |-> "text", priority |-> 2,
                                   requests |-> 100, window |-> 3600000]
          [] p = "cohere"      -> [type |-> "text", priority |-> 3,
                                   requests |-> 1000, window |-> 60000]
          [] p = "googleai"    -> [type |-> "text", priority |-> 4,
                                   requests |-> 60, window |-> 60000]
          [] p = "groq"        -> [type |-> "text", priority |-> 5,
                                   requests |-> 30, window |-> 60000]
          [] p = "mistral"     -> [type |-> "text", priority |-> 6,
                                   requests |-> 100, window |-> 60000]
          [] p = "deepai"      -> [type |-> "multimodal", priority |-> 7,
                                   requests |-> 50, window |-> 60000]
          [] p = "stability"   -> [type |-> "image", priority |-> 1,
                                   requests |-> 25, window |-> 60000]]

\* Providers for which initializeClients can create an HTTP client.
ClientCapable ==
    {"openrouter", "huggingface", "cohere", "googleai", "groq", "mistral"}

VARIABLES
    apiKeys,        \* providers whose config.apiProviders.<p>.apiKey is set
    cacheEnabled,   \* config.performance.cacheEnabled
    phase,          \* "constructed" | "ready" (initialize() has run)
    now,            \* Date.now()
    isAvailable,    \* provider.isAvailable
    errors,         \* provider.errors
    successRate,    \* provider.successRate as <<n, d>>, meaning (n / d) * 100
    requestCounts,  \* requestCounts: [count, window]
    stats,          \* stats: [total, success]
    responseCache,  \* responseCache: key -> [response, timestamp]
    timers,         \* pending setTimeout callbacks of handleProviderError
    nextCleanup,    \* due time of the setInterval callback, -1 before it is set
    req,            \* the generate calls in progress, one per slot
    env,            \* the callers and the scale of the run: [prompts,
                    \* horizon, limit, cap], see the bounds above
    hist            \* observations of the run, not program state

orchVars == <<apiKeys, cacheEnabled, phase, now, isAvailable, errors,
              successRate, requestCounts, stats, responseCache, timers,
              nextCleanup, req, env, hist>>

\* The state of the memory manager and of its database.
VARIABLES
    memories,       \* MemoryManager.memories: tier -> key -> list of entries
    mongo,          \* the documents of the `memories` collection
    memPhase,       \* "constructed" | "ready" (MemoryManager.initialize has run)
    memOps,         \* database operations awaited by a handler
    memReply,       \* the command whose reply is being sent
    memHist         \* history: entries created and process restarts so far

memVars == <<memories, mongo, memPhase, memOps, memReply, memHist>>

\* The rest of the bot: what the orchestrator keeps besides, the command
\* handler, and the process.
VARIABLES
    providers,      \* providers: name -> the fields of AIProvider set at
                    \* registration (type, priority, rateLimit)
    activeModel,    \* APIOrchestrator.activeModel
    report,         \* the array getProviderStats has returned to its caller
    isPaused,       \* CommandHandler.isPaused
    preferences,    \* the preferences stored by updateUserPreference
    interaction,    \* the command being answered and its reply
    isShuttingDown, \* the flag of gracefulShutdown
    proc,           \* the process: the step of the shutdown sequence it is
                    \* at, and what it has done
    rt              \* a call of retry(fn, maxAttempts, delay)

adminVars == <<providers, activeModel, report>>
cmdVars == <<isPaused, preferences, interaction>>
procVars == <<isShuttingDown, proc, rt>>
botVars == <<adminVars, cmdVars, procVars>>

vars == <<orchVars, memVars, botVars>>

(***************************************************************************)
(* Generation options and the cache key.                                   *)
(***************************************************************************)
\* options?: GenerationOptions, as the list of its own properties in
\* insertion order; Undefined is a call without options.
Undefined == [defined |-> FALSE, fields |-> <<>>]
EmptyOptions == [defined |-> TRUE, fields |-> <<>>]
OptionsSet == {Undefined, EmptyOptions}

\* options || {}
OrEmpty(options) == IF options.defined THEN options ELSE EmptyOptions

RECURSIVE Members(_)
Members(fields) ==
    IF fields = <<>> THEN <<>>
    ELSE <<fields[1][1], ":", fields[1][2]>> \o
         (IF Len(fields) > 1 THEN <<",">> ELSE <<>>) \o Members(Tail(fields))

\* JSON.stringify of an options object
Stringify(options) == <<"{">> \o Members(options.fields) \o <<"}">>

\* getCacheKey: `${prompt}-${JSON.stringify(options || {})}`
GetCacheKey(prompt, options) == <<prompt, "-">> \o Stringify(OrEmpty(options))

\* options?.model
ModelOf(options) ==
    LET hits == SelectSeq(options.fields, LAMBDA f : f[1] = "model")
    IN  IF hits = <<>> THEN "undefined" ELSE hits[1][2]

Keys == {GetCacheKey(pr, o) : pr \in Prompts, o \in OptionsSet}

(***************************************************************************)
(* Response cache.                                                         *)
(***************************************************************************)
\* getFromCache with `age >= cacheTTL` for `age > cacheTTL`
GetFromCacheEarly(cache, key, t) ==
    IF ~cacheEnabled THEN [hit |-> FALSE, cache |-> cache]
    ELSE IF key \notin DOMAIN cache THEN [hit |-> FALSE, cache |-> cache]
    ELSE IF t - cache[key].timestamp >= CacheTTL
         THEN [hit |-> FALSE,
               cache |-> [k \in DOMAIN cache \ {key} |-> cache[k]]]
    ELSE [hit |-> TRUE, cache |-> cache]

\* getFromCache: the response returned (hit) and the cache it leaves.
GetFromCache(cache, key, t) ==
    IF ~cacheEnabled THEN [hit |-> FALSE, cache |-> cache]
    ELSE IF key \notin DOMAIN cache THEN [hit |-> FALSE, cache |-> cache]
    ELSE IF t - cache[key].timestamp > CacheTTL
         THEN [hit |-> FALSE,
               cache |-> [k \in DOMAIN cache \ {key} |-> cache[k]]]
    ELSE [hit |-> TRUE, cache |-> cache]

\* cacheResponse without the test of config.performance.cacheEnabled
CacheResponseAlways(cache, key, response, t) ==
    [k \in DOMAIN cache \cup {key} |->
        IF k = key THEN [response |-> response, timestamp |-> t]
        ELSE cache[k]]

\* cacheResponse
CacheResponse(cache, key, response, t) ==
    IF ~cacheEnabled THEN cache
    ELSE [k \in DOMAIN cache \cup {key} |->
            IF k = key THEN [response |-> response, timestamp |-> t]
            ELSE cache[k]]

\* the sweep with `>= cacheTTL` for `> cacheTTL`
SweepEarly(cache, t) ==
    LET keep == {k \in DOMAIN cache : ~(t - cache[k].timestamp >= CacheTTL)}
    IN  [k \in keep |-> cache[k]]

\* the callback of startCacheCleanup
Sweep(cache, t) ==
    LET keep == {k \in DOMAIN cache : ~(t - cache[k].timestamp > CacheTTL)}
    IN  [k \in keep |-> cache[k]]

(***************************************************************************)
(* Candidate selection.                                                    *)
(***************************************************************************)
Sign(x) == IF x < 0 THEN -1 ELSE IF x > 0 THEN 1 ELSE 0

\* the comparator with the priority compared first
ComparePriorityFirst(a, b) ==
    IF providers[a].priority # providers[b].priority
    THEN Sign(providers[a].priority - providers[b].priority)
    ELSE IF errors[a] # errors[b] THEN Sign(errors[a] - errors[b])
    ELSE Sign(successRate[b][1] * successRate[a][2]
              - successRate[a][1] * successRate[b][2])

\* The comparator of getAvailableProviders on providers a and b: negative
\* when a sorts before b.  successRate is compared as the quotient it holds.
Compare(a, b) ==
    IF successRate[a][1] * successRate[b][2] # successRate[b][1] * successRate[a][2]
    THEN Sign(successRate[b][1] * successRate[a][2]
              - successRate[a][1] * successRate[b][2])
    ELSE IF errors[a] # errors[b] THEN Sign(errors[a] - errors[b])
    ELSE Sign(providers[a].priority - providers[b].priority)

\* Array.prototype.sort is stable: an element moves in front of exactly the
\* elements it compares less than.
RECURSIVE InsertSorted(_, _)
InsertSorted(s, x) ==
    IF s = <<>> THEN <<x>>
    ELSE IF Compare(s[Len(s)], x) > 0
         THEN Append(InsertSorted(SubSeq(s, 1, Len(s) - 1), x), s[Len(s)])
         ELSE Append(s, x)

RECURSIVE SortProviders(_)
SortProviders(s) ==
    IF s = <<>> THEN <<>>
    ELSE InsertSorted(SortProviders(SubSeq(s, 1, Len(s) - 1)), s[Len(s)])

\* the filter without `|| p.type === 'multimodal'`
EligibleExactType(p, type) ==
    providers[p].type = type /\ isAvailable[p]

\* the filter without `&& p.isAvailable`
EligibleWhateverState(p, type) ==
    providers[p].type = type \/ providers[p].type = "multimodal"

\* the filter with the credential of the provider for `p.isAvailable`
EligibleIfKeyed(p, type) ==
    (providers[p].type = type \/ providers[p].type = "multimodal") /\ p \in apiKeys

\* the filter of getAvailableProviders
Eligible(p, type) ==
    (providers[p].type = type \/ providers[p].type = "multimodal") /\ isAvailable[p]

\* getAvailableProviders(type)
GetAvailableProviders(type) ==
    SortProviders(SelectSeq(Names, LAMBDA p : Eligible(p, type)))

(***************************************************************************)
(* Rate limiter.                                                           *)
(***************************************************************************)
\* provider.rateLimit.requests, capped for the run
Requests(p) == Min(providers[p].requests, env.cap)

\* checkRateLimit with `<=` for `<`
CheckRateLimitInclusive(counts, p, t) ==
    LET c == IF t - counts[p].window >= providers[p].window
             THEN [count |-> 0, window |-> t]
             ELSE counts[p]
    IN  [counts |-> [counts EXCEPT ![p] = c],
         ok |-> c.count <= Requests(p)]

\* checkRateLimit that counts every check, admitted or denied
CheckRateLimitCounting(counts, p, t) ==
    LET c == IF t - counts[p].window >= providers[p].window
             THEN [count |-> 0, window |-> t]
             ELSE counts[p]
    IN  [counts |-> [counts EXCEPT ![p] = [c EXCEPT !.count = @ + 1]],
         ok |-> c.count < Requests(p)]

\* checkRateLimit: the window record it leaves and its answer.
CheckRateLimit(counts, p, t) ==
    LET c == IF t - counts[p].window >= providers[p].window
             THEN [count |-> 0, window |-> t]
             ELSE counts[p]
    IN  [counts |-> [counts EXCEPT ![p] = c],
         ok |-> c.count < Requests(p)]

\* incrementRequestCount
IncrementRequestCount(counts, p) ==
    [counts EXCEPT ![p].count = @ + 1]

(***************************************************************************)
(* Circuit breaker and statistics.                                         *)
(***************************************************************************)
\* a rate that is the share of the failed attempts
RateOfFailures(st) == <<st.total - st.success, st.total>>

\* (stats.success / stats.total) * 100, kept as the fraction success/total
\* of 100 percent; the initial 100 is <<1, 1>>.
RateOf(st) == <<st.success, st.total>>

\* handleProviderError: the provider fields and the timer queue it leaves.
\* The success rate is recomputed from the statistics as they are before
\* the failed attempt is recorded.
HandleProviderError(p, t) ==
    LET e == errors[p] + 1
    IN  [errors |-> e,
         rate |-> IF stats[p].total > 0
                  THEN RateOf(stats[p])
                  ELSE successRate[p],
         available |-> IF e >= FailureThreshold THEN FALSE ELSE isAvailable[p],
         timers |-> IF e >= FailureThreshold
                    THEN Append(timers, [p |-> p, due |-> t + CoolDown])
                    ELSE timers]

\* updateStats that counts the successful attempts only
UpdateStatsOnSuccess(p, success, latency) ==
    [total |-> stats[p].total + (IF success THEN 1 ELSE 0),
     success |-> stats[p].success + (IF success THEN 1 ELSE 0),
     totalLatency |-> stats[p].totalLatency + latency]

\* updateStats that counts every attempt as a success
UpdateStatsAsSuccess(p, success, latency) ==
    [total |-> stats[p].total + 1,
     success |-> stats[p].success + 1,
     totalLatency |-> stats[p].totalLatency + latency]

\* updateStats that keeps the latency of the last attempt only
UpdateStatsLastLatency(p, success, latency) ==
    [total |-> stats[p].total + 1,
     success |-> stats[p].success + (IF success THEN 1 ELSE 0),
     totalLatency |-> latency]

\* updateStats: the statistics record of p after one more attempt.
UpdateStats(p, success, latency) ==
    [total |-> stats[p].total + 1,
     success |-> stats[p].success + (IF success THEN 1 ELSE 0),
     totalLatency |-> stats[p].totalLatency + latency]

(***************************************************************************)
(* Requests.                                                               *)
(***************************************************************************)
NoResponse == [provider |-> "none", model |-> "undefined", latency |-> 0]

Idle ==
    [pc |-> "idle", kind |-> "none", key |-> <<>>, model |-> "undefined",
     cands |-> <<>>, idx |-> 0, startTime |-> 0, callStart |-> 0,
     lastError |-> "none", result |-> "none", response |-> NoResponse,
     cached |-> FALSE, calls |-> 0, checks |-> 0, errBefore |-> 0,
     failed |-> "none", thrown |-> "none", settled |-> 0, asked |-> <<>>]

\* The provider error named in the message of the error thrown after the
\* loop: lastError?.message in generateText, none in generateImage, which
\* keeps no lastError.
LastErrorThrown(rec) == IF rec.kind = "text" THEN rec.lastError ELSE "none"

\* providerClients: the providers initializeClients created a client for
Clients == ClientCapable \cap apiKeys

\* the loop head without `continue` on a denied candidate
ScanWithoutSkip(cands, i, counts, t) ==
    IF i > Len(cands) THEN [counts |-> counts, idx |-> 0, checks |-> 0]
    ELSE [counts |-> CheckRateLimit(counts, cands[i], t).counts, idx |-> i,
          checks |-> 1]

\* The head of the for loop of generateText / generateImage from candidate
\* i on: the rate-limit checks up to the first candidate admitted (idx), or
\* idx = 0 when the list is exhausted.
RECURSIVE Scan(_, _, _, _)
Scan(cands, i, counts, t) ==
    IF i > Len(cands) THEN [counts |-> counts, idx |-> 0, checks |-> 0]
    ELSE LET c == CheckRateLimit(counts, cands[i], t)
         IN  IF c.ok THEN [counts |-> c.counts, idx |-> i, checks |-> 1]
             ELSE LET rest == Scan(cands, i + 1, c.counts, t)
                  IN  [rest EXCEPT !.checks = @ + 1]

\* The loop from candidate i up to the next await: either the call of
\* callProvider on the first admitted candidate (which counts the request
\* and starts the HTTP call, or throws when the provider has no client), or
\* the throw after the loop.
Proceed(rec, i, t) ==
    LET sc == Scan(rec.cands, i, requestCounts, t)
        p == rec.cands[sc.idx]
    IN  IF sc.idx = 0
        THEN [req |-> [rec EXCEPT !.pc = "done", !.result = "AllFailed",
                                  !.idx = 0, !.startTime = 0, !.callStart = 0,
                                  !.checks = @ + sc.checks,
                                  !.thrown = LastErrorThrown(rec)],
              counts |-> sc.counts, invoked |-> "none"]
        ELSE IF p \in Clients
        THEN [req |-> [rec EXCEPT !.pc = "inflight", !.idx = sc.idx,
                                  !.callStart = t, !.calls = @ + 1,
                                  !.checks = @ + sc.checks],
              counts |-> IncrementRequestCount(sc.counts, p), invoked |-> p]
        ELSE [req |-> [rec EXCEPT !.pc = "rejected", !.idx = sc.idx,
                                  !.callStart = t, !.checks = @ + sc.checks],
              counts |-> sc.counts, invoked |-> "none"]

\* No timer callback is due: callbacks due at an instant run before the
\* other events of that instant.
NoTimerDue ==
    /\ IF timers = <<>> THEN TRUE ELSE timers[1].due > now
    /\ IF nextCleanup = -1 THEN TRUE ELSE nextCleanup > now

\* No continuation is queued as a microtask: no catch block of a call that
\* threw at once, and no caller waiting for the outcome of its request.
Quiet == \A r \in Slots : req[r].pc \notin {"rejected", "done"}

\* hist.admitted after a step that leaves the windows `counts` and invokes
\* the adapter of provider `invoked`
Admitted(counts, invoked) ==
    [p \in Providers |->
        (IF counts[p].window # requestCounts[p].window THEN 0 ELSE hist.admitted[p])
        + (IF p = invoked THEN 1 ELSE 0)]

(***************************************************************************)
(* Initial state: the orchestrator as its constructor leaves it.           *)
(***************************************************************************)
HistInit ==
    [streak |-> [p \in Providers |-> 0],
     trippedAt |-> [p \in Providers |-> -1],
     admitted |-> [p \in Providers |-> 0],
     imageAttempts |-> 0,
     lastIns |-> <<>>,
     ins |-> {},
     attempted |-> [p \in Providers |-> 0],
     succeeded |-> [p \in Providers |-> 0]]

\* type MemoryTier
Tiers == {"contextual", "personality", "individual", "connections"}

\* user, channel and connection ids are strings, written as the list of
\* their parts; NoId stands for an id that is not given
NoId == <<>>

NoReply == [command |-> "none", user |-> NoId]

\* The memory manager after new MemoryManager(databaseManager), over an
\* empty collection.
MemConstructed ==
    /\ memories = [t \in Tiers |-> <<>>]
    /\ mongo = {}
    /\ memPhase = "constructed"
    /\ memOps = {}
    /\ memReply = NoReply
    /\ memHist = [created |-> 0, restarts |-> 0]

\* no report, no interaction
NoReport == <<>>
NoInteraction == [user |-> NoId, command |-> "none", reply |-> "none",
                  seq |-> 0]

\* the process as it starts
Started == [pc |-> "running", code |-> -1, events |-> <<>>, runs |-> 0,
            destroyed |-> 0, closed |-> 0, saved |-> 0]

\* no call of retry
NoRetry == [pc |-> "idle", maxAttempts |-> 0, delay |-> 0, attempt |-> 0,
            calls |-> <<>>, lastError |-> "undefined", outcome |-> "none",
            waits |-> <<>>]

\* The other objects after their construction.
BotConstructed ==
    /\ providers = Registry
    /\ activeModel = "auto"
    /\ report = NoReport
    /\ isPaused = FALSE
    /\ preferences = {}
    /\ interaction = NoInteraction
    /\ isShuttingDown = FALSE
    /\ proc = Started
    /\ rt = NoRetry

\* The orchestrator after new APIOrchestrator().
Constructed ==
    /\ MemConstructed
    /\ BotConstructed
    /\ phase = "constructed"
    /\ now = 0
    /\ isAvailable = [p \in Providers |-> p \in apiKeys]
    /\ errors = [p \in Providers |-> 0]
    /\ successRate = [p \in Providers |-> <<1, 1>>]
    /\ requestCounts = [p \in Providers |-> [count |-> 0, window |-> 0]]
    /\ stats = [p \in Providers |-> [total |-> 0, success |-> 0,
                                     totalLatency |-> 0]]
    /\ responseCache = <<>>
    /\ timers = <<>>
    /\ nextCleanup = -1
    /\ req = [r \in Slots |-> Idle]
    /\ hist = HistInit

\* Three credentials (two text providers with a client and the image
\* provider, which has none), cache on, requests of two prompts.
InitServe ==
    /\ apiKeys = {"openrouter", "groq", "stability"}
    /\ cacheEnabled = TRUE
    /\ env = [prompts |-> Prompts, horizon |-> MaxTicks * TickMs,
              limit |-> MaxAttempts, cap |-> MaxBudget,
              latency |-> MaxLatency * TickMs]
    /\ Constructed

\* One credential, no cache, requests of one prompt: the circuit breaker of
\* a single provider over several cool-downs.
InitBreaker ==
    /\ apiKeys = {"openrouter"}
    /\ cacheEnabled = FALSE
    /\ env = [prompts |-> {"a"}, horizon |-> BreakerTicks * TickMs,
              limit |-> BreakerAttempts, cap |-> BreakerBudget,
              latency |-> BreakerLatency * TickMs]
    /\ Constructed

\* One credential, cache on, requests of one prompt: a cached response that
\* outlives the availability of its provider.
InitExpiry ==
    /\ apiKeys = {"openrouter"}
    /\ cacheEnabled = TRUE
    /\ env = [prompts |-> {"a"}, horizon |-> ExpiryTicks * TickMs,
              limit |-> ExpiryAttempts, cap |-> ExpiryBudget,
              latency |-> ExpiryLatency * TickMs]
    /\ Constructed

\* Two credentials, no cache, requests of one prompt: the circuit breaker
\* of the second candidate of a request that is under way.
InitFallback ==
    /\ apiKeys = {"openrouter", "groq"}
    /\ cacheEnabled = FALSE
    /\ env = [prompts |-> {"a"}, horizon |-> FallbackTicks * TickMs,
              limit |-> FallbackAttempts, cap |-> FallbackBudget,
              latency |-> FallbackLatency * TickMs]
    /\ Constructed

\* Credentials of a text provider and of the multimodal provider, none of
\* the image provider: the candidates of either modality.
InitModal ==
    /\ apiKeys = {"openrouter", "deepai"}
    /\ cacheEnabled = FALSE
    /\ env = [prompts |-> {"a"}, horizon |-> ModalTicks * TickMs,
              limit |-> ModalAttempts, cap |-> ModalBudget,
              latency |-> ModalLatency * TickMs]
    /\ Constructed

\* The process starts with either environment.
Init == InitServe \/ InitFallback

\* As InitBreaker, with callers that stop early: what becomes of a disabled
\* provider in the long run.
InitLive ==
    /\ apiKeys = {"openrouter"}
    /\ cacheEnabled = FALSE
    /\ env = [prompts |-> {"a"}, horizon |-> LiveTicks * TickMs,
              limit |-> LiveAttempts, cap |-> BreakerBudget,
              latency |-> LiveLatency * TickMs]
    /\ Constructed

(***************************************************************************)
(* initialize(): testProviders, then startCacheCleanup.                    *)
(***************************************************************************)
\* testProviders: only the probe of openrouter can throw; the other probes
\* swallow their error, and a provider without client is not probed.
TestProviders(probeFails) ==
    [p \in Providers |->
        IF p = "openrouter" /\ isAvailable[p] /\ p \in Clients /\ probeFails
        THEN FALSE ELSE isAvailable[p]]

Initialize ==
    /\ phase = "constructed"
    /\ \E probeFails \in BOOLEAN : isAvailable' = TestProviders(probeFails)
    /\ nextCleanup' = now + CleanupInterval
    /\ phase' = "ready"
    /\ UNCHANGED <<memVars, botVars, apiKeys, cacheEnabled, now, errors, successRate,
                   requestCounts, stats, responseCache, timers, req, env, hist>>

(***************************************************************************)
(* generateText / generateImage up to their first await.                   *)
(***************************************************************************)
RECURSIVE SumTotal(_)
SumTotal(ps) ==
    IF ps = {} THEN 0
    ELSE LET p == CHOOSE q \in ps : TRUE
         IN  stats[p].total + SumTotal(ps \ {p})

\* the attempts made: those of generateText, which the statistics record,
\* and those of generateImage
Attempts == SumTotal(Providers) + hist.imageAttempts

\* requests that have not ended
Running == Cardinality({r \in Slots : req[r].pc # "idle"})

CanStart(r) ==
    /\ phase = "ready"
    /\ Quiet
    /\ req[r].pc = "idle"
    /\ \A q \in Slots : q < r => req[q].pc # "idle"
    /\ Attempts + Running < env.limit
    /\ now <= env.horizon
    /\ NoTimerDue

\* The request after the candidate list is built.
Begin(kind, key, model, cands) ==
    [Idle EXCEPT !.pc = "start", !.kind = kind, !.key = key, !.model = model,
                 !.cands = cands, !.startTime = now]

GenerateText(r, prompt, options) ==
    LET key == GetCacheKey(prompt, options)
        got == GetFromCache(responseCache, key, now)
        cands == GetAvailableProviders("text")
        rec == [Begin("text", key, ModelOf(OrEmpty(options)), cands)
                  EXCEPT !.asked = key]
        go == Proceed(rec, 1, now)
    IN  /\ CanStart(r)
        /\ responseCache' = got.cache
        /\ IF got.hit
           THEN /\ req' = [req EXCEPT ![r] =
                             [Idle EXCEPT !.pc = "done", !.kind = "text",
                                          !.key = key, !.asked = key,
                                          !.result = "ok",
                                          !.response = responseCache[key].response,
                                          !.cached = TRUE]]
                /\ UNCHANGED <<requestCounts, hist>>
           ELSE IF cands = <<>>
           THEN /\ req' = [req EXCEPT ![r] =
                             [rec EXCEPT !.pc = "done", !.result = "NoProviders",
                                         !.startTime = 0]]
                /\ UNCHANGED <<requestCounts, hist>>
           ELSE /\ req' = [req EXCEPT ![r] = go.req]
                /\ requestCounts' = go.counts
                /\ hist' = [hist EXCEPT !.admitted = Admitted(go.counts, go.invoked)]
        /\ UNCHANGED <<memVars, botVars, apiKeys, cacheEnabled, phase, now, isAvailable, errors,
                       successRate, stats, timers, nextCleanup, env>>

GenerateImage(r, prompt, options) ==
    LET cands == GetAvailableProviders("image")
        rec == [Begin("image", <<>>, ModelOf(OrEmpty(options)), cands)
                  EXCEPT !.asked = GetCacheKey(prompt, options)]
        go == Proceed(rec, 1, now)
    IN  /\ CanStart(r)
        /\ IF cands = <<>>
           THEN /\ req' = [req EXCEPT ![r] =
                             [rec EXCEPT !.pc = "done", !.result = "NoProviders",
                                         !.startTime = 0]]
                /\ UNCHANGED <<requestCounts, hist>>
           ELSE /\ req' = [req EXCEPT ![r] = go.req]
                /\ requestCounts' = go.counts
                /\ hist' = [hist EXCEPT !.admitted = Admitted(go.counts, go.invoked)]
        /\ UNCHANGED <<memVars, botVars, apiKeys, cacheEnabled, phase, now, isAvailable, errors,
                       successRate, stats, responseCache, timers, nextCleanup,
                       env>>

(***************************************************************************)
(* The continuation of a request after its awaited callProvider settles.   *)
(***************************************************************************)
\* a loop that goes on without the end of its HTTP call
SettleNone(rec) == rec

\* `await this.callProvider(...)` resumes: the HTTP call of the request, if
\* it started one, has settled.
Settle(rec) ==
    IF rec.pc = "inflight" THEN [rec EXCEPT !.settled = @ + 1] ELSE rec

\* the first candidate of the list as the provider of the response
FirstCandidate(rec) == rec.cands[1]

\* provider.name of the loop variable, as in the response
Responder(rec) == rec.cands[rec.idx]

\* a resolved call that leaves provider.errors as it is
ErrorsKeptAfterSuccess(p) == errors

\* provider.errors = 0 after a resolved call
ErrorsAfterSuccess(p) == [errors EXCEPT ![p] = 0]

\* The try block after a resolved call.  generateText records the success
\* in the statistics and caches the response; generateImage does neither.
Succeed(r) ==
    LET rec == Settle(req[r])
        p == rec.cands[rec.idx]
        response == [provider |-> Responder(rec), model |-> rec.model,
                     latency |-> now - rec.startTime]
        st == UpdateStats(p, TRUE, response.latency)
        text == rec.kind = "text"
    IN  /\ errors' = ErrorsAfterSuccess(p)
        /\ stats' = IF text THEN [stats EXCEPT ![p] = st] ELSE stats
        /\ successRate' = IF text
                          THEN [successRate EXCEPT ![p] = RateOf(st)]
                          ELSE successRate
        /\ responseCache' = IF text
                            THEN CacheResponse(responseCache, rec.key, response, now)
                            ELSE responseCache
        /\ req' = [req EXCEPT ![r] =
                     [rec EXCEPT !.pc = "done", !.result = "ok", !.idx = 0,
                                 !.startTime = 0, !.callStart = 0,
                                 !.response = response,
                                 !.errBefore = errors[p]]]
        /\ hist' = [hist EXCEPT
                      !.streak[p] = 0,
                      !.attempted[p] = IF text THEN @ + 1 ELSE @,
                      !.succeeded[p] = IF text THEN @ + 1 ELSE @,
                      !.imageAttempts = IF text THEN @ ELSE @ + 1,
                      !.lastIns = IF text
                                  THEN CacheResponse(@, rec.key, response, now)
                                  ELSE @,
                      !.ins = IF text /\ cacheEnabled
                              THEN @ \cup {[key |-> rec.key, response |-> response,
                                            time |-> now]}
                              ELSE @]
        /\ UNCHANGED <<isAvailable, requestCounts, timers>>

\* an error that leaves the loop
PastTheEnd(rec) == Len(rec.cands) + 1

\* The for loop goes on with the candidate after the one that failed.
NextIndex(rec) == rec.idx + 1

\* The catch block after a rejected call, and the loop up to the next await.
Fail(r) ==
    LET rec == Settle(req[r])
        p == rec.cands[rec.idx]
        h == HandleProviderError(p, now)
        st == UpdateStats(p, FALSE, now - rec.startTime)
        text == rec.kind = "text"
        go == Proceed([rec EXCEPT !.lastError = IF text THEN p ELSE @,
                                  !.failed = p],
                      NextIndex(rec), now)
    IN  /\ errors' = [errors EXCEPT ![p] = h.errors]
        /\ isAvailable' = [isAvailable EXCEPT ![p] = h.available]
        /\ timers' = h.timers
        /\ stats' = IF text THEN [stats EXCEPT ![p] = st] ELSE stats
        /\ successRate' = [successRate EXCEPT ![p] =
                             IF text THEN RateOf(st) ELSE h.rate]
        /\ req' = [req EXCEPT ![r] = go.req]
        /\ requestCounts' = go.counts
        /\ hist' = [hist EXCEPT
                      !.streak[p] = @ + 1,
                      !.attempted[p] = IF text THEN @ + 1 ELSE @,
                      !.imageAttempts = IF text THEN @ ELSE @ + 1,
                      !.trippedAt[p] = IF isAvailable[p] /\ ~h.available
                                       THEN now ELSE @,
                      !.admitted = Admitted(go.counts, go.invoked)]
        /\ UNCHANGED responseCache

\* The latency that updateStats would add keeps stats.totalLatency of the
\* attempted provider within the bound of the environment.
LatencyWithinBound(r) ==
    LET p == req[r].cands[req[r].idx]
    IN  req[r].kind = "text"
           => stats[p].totalLatency + (now - req[r].startTime) <= env.latency

\* The HTTP call of request r settles: it resolves, or it rejects (an error
\* response, a network error, the axios timeout).
Complete(r, ok) ==
    /\ req[r].pc = "inflight"
    /\ LatencyWithinBound(r)
    /\ \A q \in Slots : req[q].pc # "done"
    /\ NoTimerDue
    /\ IF ok THEN Succeed(r) ELSE Fail(r)
    /\ UNCHANGED <<memVars, botVars, apiKeys, cacheEnabled, phase, now, nextCleanup, env>>

\* callProvider threw 'No client configured': the catch block runs.
Reject(r) ==
    /\ req[r].pc = "rejected"
    /\ LatencyWithinBound(r)
    /\ \A q \in Slots : req[q].pc # "done"
    /\ Fail(r)
    /\ UNCHANGED <<memVars, botVars, apiKeys, cacheEnabled, phase, now, nextCleanup, env>>

\* The caller of request r receives its outcome.
Return(r) ==
    /\ req[r].pc = "done"
    /\ req' = [req EXCEPT ![r] = Idle]
    /\ UNCHANGED <<memVars, botVars, apiKeys, cacheEnabled, phase, now, isAvailable, errors,
                   successRate, requestCounts, stats, responseCache, timers,
                   nextCleanup, env, hist>>

(***************************************************************************)
(* Timers and the clock.                                                   *)
(***************************************************************************)
\* a recovery that leaves provider.errors as it is
ErrorsKeptAfterRecovery(p) == errors

\* provider.errors = 0 in the timer callback
ErrorsAfterRecovery(p) == [errors EXCEPT ![p] = 0]

\* The setTimeout callback of handleProviderError.
Recover ==
    /\ timers # <<>>
    /\ timers[1].due <= now
    /\ Quiet
    /\ LET p == timers[1].p
       IN  /\ isAvailable' = [isAvailable EXCEPT ![p] = TRUE]
           /\ errors' = ErrorsAfterRecovery(p)
           /\ hist' = [hist EXCEPT !.streak[p] = IF isAvailable[p] THEN @ ELSE 0]
    /\ timers' = Tail(timers)
    /\ UNCHANGED <<memVars, botVars, apiKeys, cacheEnabled, phase, now, successRate,
                   requestCounts, stats, responseCache, nextCleanup, req,
                   env>>

\* The setInterval callback of startCacheCleanup.
CacheCleanup ==
    /\ nextCleanup # -1
    /\ nextCleanup <= now
    /\ Quiet
    /\ responseCache' = Sweep(responseCache, now)
    /\ nextCleanup' = nextCleanup + CleanupInterval
    /\ UNCHANGED <<memVars, botVars, apiKeys, cacheEnabled, phase, now, isAvailable, errors,
                   successRate, requestCounts, stats, timers, req, env, hist>>

\* The instant the clock moves to: TickMs later, or the next timer if that
\* is earlier.
NextInstant ==
    LET a == now + TickMs
        b == IF timers # <<>> THEN Min(a, timers[1].due) ELSE a
    IN  IF nextCleanup # -1 THEN Min(b, nextCleanup) ELSE b

\* Time passes.  An HTTP call is settled at the latest when its timeout
\* (config.performance.apiTimeout) expires.
Tick ==
    /\ phase = "ready"
    /\ NoTimerDue
    /\ Quiet
    /\ IF now < env.horizon THEN TRUE ELSE timers # <<>>
    /\ \A r \in Slots :
         req[r].pc = "inflight" => NextInstant - req[r].callStart <= ApiTimeout
    /\ now' = NextInstant
    /\ UNCHANGED <<memVars, botVars, apiKeys, cacheEnabled, phase, isAvailable, errors,
                   successRate, requestCounts, stats, responseCache, timers,
                   nextCleanup, req, env, hist>>

Next ==
    \/ Initialize
    \/ \E r \in Slots, pr \in env.prompts, o \in OptionsSet : GenerateText(r, pr, o)
    \/ \E r \in Slots, pr \in env.prompts, o \in OptionsSet : GenerateImage(r, pr, o)
    \/ \E r \in Slots, ok \in BOOLEAN : Complete(r, ok)
    \/ \E r \in Slots : Reject(r)
    \/ \E r \in Slots : Return(r)
    \/ Recover
    \/ CacheCleanup
    \/ Tick

Spec == Init /\ [][Next]_vars

SpecModal == InitModal /\ [][Next]_vars

\* The steps of a run whose callers send text requests only.
NextText ==
    \/ Initialize
    \/ \E r \in Slots, pr \in env.prompts, o \in OptionsSet : GenerateText(r, pr, o)
    \/ \E r \in Slots, ok \in BOOLEAN : Complete(r, ok)
    \/ \E r \in Slots : Return(r)
    \/ Recover
    \/ CacheCleanup
    \/ Tick

\* Time passes however many requests arrive, a timer callback that is due
\* runs, an HTTP call settles (at the latest by its timeout) and a settled
\* request returns.  The first four are disabled while another callback
\* runs, hence the strong fairness.
Fairness ==
    /\ SF_vars(Tick)
    /\ SF_vars(Recover)
    /\ SF_vars(CacheCleanup)
    /\ \A r \in Slots : SF_vars(\E ok \in BOOLEAN : Complete(r, ok))
    /\ \A r \in Slots : WF_vars(Return(r))

SpecLive == InitLive /\ [][NextText]_vars /\ Fairness

SpecExpiry == InitExpiry /\ [][NextText]_vars

SpecFallback == InitFallback /\ [][NextText]_vars

SpecBreaker == InitBreaker /\ [][NextText]_vars

(***************************************************************************)
(* Circuit breaker properties.                                             *)
(***************************************************************************)
\* C2: a provider that has completed 5 failed attempts in a row (hist.streak
\* counts the failed attempts since its last successful attempt or its last
\* recovery from being disabled) is unavailable.
C2_TrippedAfterFiveFailures ==
    \A p \in Providers : hist.streak[p] >= FailureThreshold => ~isAvailable[p]

\* C3: a provider disabled by the circuit breaker becomes available again
\* no earlier than the cool-down after the trip that disabled it.
C3_CoolDownRespected ==
    [][\A p \in Providers :
          (~isAvailable[p] /\ isAvailable'[p] /\ hist.trippedAt[p] # -1)
              => now' - hist.trippedAt[p] >= CoolDown]_vars

\* C4: a provider that holds a credential and is unavailable becomes
\* available again.
C4_EventuallyAvailableAgain ==
    \A p \in Providers :
        [](p \in apiKeys /\ ~isAvailable[p] => <>isAvailable[p])

\* C5: right after a successful attempt the failure counter of the provider
\* that answered is 0, whatever it was before.
C5_SuccessResetsErrors ==
    \A r \in Slots :
        (req[r].pc = "done" /\ req[r].result = "ok" /\ ~req[r].cached)
            => errors[req[r].response.provider] = 0

C5_Witness ==
    \E r \in Slots :
        /\ req[r].pc = "done" /\ req[r].result = "ok" /\ ~req[r].cached
        /\ req[r].errBefore = FailureThreshold - 1
        /\ errors[req[r].response.provider] = 0

\* C9: a request takes its candidates among the providers available at the
\* instant it starts, keeps that list, and calls candidates of it only.
C9_UnavailableNotCandidate ==
    [][\A r \in Slots :
          /\ (req[r].pc = "idle" /\ req'[r].pc # "idle")
                => \A i \in 1..Len(req'[r].cands) : isAvailable[req'[r].cands[i]]
          /\ (req[r].pc # "idle" /\ req'[r].pc # "idle")
                => req'[r].cands = req[r].cands
          /\ req'[r].pc \in {"inflight", "rejected"}
                => req'[r].idx \in 1..Len(req'[r].cands)]_vars

\* A request that started after the breaker disabled the only provider.
C9_Witness ==
    \E r \in Slots :
        /\ req[r].pc = "done" /\ req[r].result = "NoProviders"
        /\ ~isAvailable["openrouter"]
        /\ hist.trippedAt["openrouter"] # -1
        /\ hist.streak["openrouter"] >= FailureThreshold

(***************************************************************************)
(* Cache properties.                                                       *)
(***************************************************************************)
\* Request r starts in this step as a generateText call.
StartsText(r) == req[r].pc = "idle" /\ req'[r].pc # "idle" /\ req'[r].kind = "text"

\* The request that started in this step was answered from the cache with
\* `response` and touched nothing else.
AnsweredFromCache(r, response) ==
    /\ req'[r].pc = "done" /\ req'[r].result = "ok" /\ req'[r].cached
    /\ req'[r].response = response
    /\ req'[r].checks = 0 /\ req'[r].calls = 0
    /\ UNCHANGED <<isAvailable, errors, successRate, requestCounts, stats>>

\* C1 as stated: a call that starts within the TTL of an insertion under
\* its key returns the response of that insertion, cached, without any
\* provider logic.
C1_ReturnsStoredResponse ==
    [][\A r \in Slots : StartsText(r) =>
          \A i \in hist.ins :
              (i.key = req'[r].key /\ now - i.time <= CacheTTL)
                  => AnsweredFromCache(r, i.response)]_vars

\* C1 amended: such a call returns the response most recently stored under
\* its key, cached, without any provider logic.
C1_ReturnsLatestStoredResponse ==
    [][\A r \in Slots : StartsText(r) =>
          LET k == req'[r].key
          IN  (k \in DOMAIN hist.lastIns /\ now - hist.lastIns[k].timestamp <= CacheTTL)
                  => AnsweredFromCache(r, hist.lastIns[k].response)]_vars

\* A call answered from the cache after two different responses were stored
\* under its key within the TTL.
C1_Witness ==
    \E r \in Slots :
        /\ req[r].pc = "done" /\ req[r].cached
        /\ req[r].response = hist.lastIns[req[r].key].response
        /\ \E i \in hist.ins :
              /\ i.key = req[r].key
              /\ now - i.time <= CacheTTL
              /\ i.response # req[r].response

\* A read of key k at this instant returns absent exactly when k was never
\* inserted or its latest insertion is older than the TTL.
AbsentIffExpired(k) ==
    ~GetFromCache(responseCache, k, now).hit
        <=> (k \notin DOMAIN hist.lastIns
             \/ now - hist.lastIns[k].timestamp > CacheTTL)

\* C10: a cache read is absent exactly for a key never inserted or expired,
\* whether or not the sweep has removed the entry, and a request whose
\* entry has expired is not answered from the cache: it selects candidates.
C10_AbsentIffExpired ==
    [][/\ \A k \in Keys : AbsentIffExpired(k) /\ AbsentIffExpired(k)'
       /\ \A r \in Slots : StartsText(r) =>
            LET k == req'[r].key
            IN  (k \in DOMAIN hist.lastIns /\ now - hist.lastIns[k].timestamp > CacheTTL)
                    => /\ ~req'[r].cached
                       /\ req'[r].cands = GetAvailableProviders("text")
                       /\ k \notin DOMAIN responseCache']_vars

\* An expired entry read before the sweep removed it, by a request that
\* then called a provider.
C10_Witness ==
    \E r \in Slots :
        /\ req[r].pc = "inflight" /\ req[r].callStart = now /\ req[r].calls = 1
        /\ req[r].key \in DOMAIN hist.lastIns
        /\ now - hist.lastIns[req[r].key].timestamp > CacheTTL
        /\ \E k \in DOMAIN responseCache : now - responseCache[k].timestamp > CacheTTL

(***************************************************************************)
(* Candidate order and rate limiter properties.                            *)
(***************************************************************************)
\* a's success rate is higher than b's
RateAbove(a, b) ==
    successRate[a][1] * successRate[b][2] > successRate[b][1] * successRate[a][2]

\* a precedes b in the order (success rate descending, failure count
\* ascending, priority ascending)
Precedes(a, b) ==
    \/ RateAbove(a, b)
    \/ /\ ~RateAbove(b, a)
       /\ \/ errors[a] < errors[b]
          \/ errors[a] = errors[b] /\ providers[a].priority < providers[b].priority

\* C6: the candidate list of every modality holds each eligible provider
\* once, in the order (success rate descending, failure count ascending,
\* priority ascending).
C6_CandidateOrder ==
    \A type \in Kinds :
        LET l == GetAvailableProviders(type)
        IN  /\ \A i, j \in 1..Len(l) : i < j => Precedes(l[i], l[j])
            /\ {l[i] : i \in 1..Len(l)} = {p \in Providers : Eligible(p, type)}

\* The provider of priority 5 precedes the provider of priority 1, whose
\* success rate is lower.
C6_Witness ==
    /\ GetAvailableProviders("text") = <<"groq", "openrouter">>
    /\ RateAbove("groq", "openrouter")
    /\ errors["openrouter"] > errors["groq"]

\* C7: the window count of a provider is the number of adapter calls
\* admitted since the last reset of its window and never exceeds its budget.
C7_WindowCount ==
    \A p \in Providers :
        /\ 0 <= requestCounts[p].count
        /\ requestCounts[p].count <= Requests(p)
        /\ hist.admitted[p] <= Requests(p)
        /\ requestCounts[p].count = hist.admitted[p]

\* A window that was reset and then filled up to its budget.
C7_Witness ==
    \E p \in Providers :
        /\ requestCounts[p].window > 0
        /\ requestCounts[p].count = Requests(p)
        /\ stats[p].total > Requests(p)

\* The rate limiter denies provider p at this instant.
Denied(p) ==
    /\ now - requestCounts[p].window < providers[p].window
    /\ requestCounts[p].count >= Requests(p)

\* C8: a request with candidates, all denied by the rate limiter, fails
\* with the aggregate error without any adapter call.
C8_AllDenied ==
    [][\A r \in Slots :
          (/\ req[r].pc = "idle" /\ req'[r].pc # "idle"
           /\ ~req'[r].cached
           /\ req'[r].cands # <<>>
           /\ \A i \in 1..Len(req'[r].cands) : Denied(req'[r].cands[i]))
              => /\ req'[r].pc = "done"
                 /\ req'[r].result = "AllFailed"
                 /\ req'[r].calls = 0
                 /\ req'[r].lastError = "none"
                 /\ UNCHANGED <<stats, errors, isAvailable>>]_vars

\* A request with two candidates, both denied.
C8_Witness ==
    \E r \in Slots :
        /\ req[r].pc = "done" /\ req[r].result = "AllFailed"
        /\ Len(req[r].cands) = 2
        /\ \A i \in 1..2 : Denied(req[r].cands[i])
        /\ req[r].calls = 0 /\ req[r].checks = 2

(***************************************************************************)
(* Failure modes of a request.                                             *)
(***************************************************************************)
\* Request r starts in this step.
Starts(r) == req[r].pc = "idle" /\ req'[r].pc # "idle"

\* No registered provider matches the modality and is available.
NoCandidate(kind) ==
    \A p \in Providers :
        ~((providers[p].type = kind \/ providers[p].type = "multimodal")
          /\ isAvailable[p])

\* A read of key k at this instant does not hit.
Misses(k) ==
    \/ ~cacheEnabled
    \/ k \notin DOMAIN responseCache
    \/ now - responseCache[k].timestamp > CacheTTL

\* The request that starts in this step has no candidate and no cached
\* response.
StartsWithoutCandidate(r) ==
    /\ Starts(r)
    /\ NoCandidate(req'[r].kind)
    /\ req'[r].kind = "text" => Misses(req'[r].key)

\* It has failed with NoProvidersAvailable at once, without a rate-limit
\* check or an adapter call, and left the providers, windows and statistics
\* as they were.
FailsAtOnce(r) ==
    /\ req'[r].pc = "done" /\ req'[r].result = "NoProviders"
    /\ req'[r].checks = 0 /\ req'[r].calls = 0
    /\ UNCHANGED <<isAvailable, errors, successRate, requestCounts, stats,
                   timers>>

\* C11 as stated: a request without candidate and without cache hit fails
\* at once with NoProvidersAvailable and changes neither provider, window,
\* statistics nor cache entry.
C11_NoProvidersChangesNothing ==
    [][\A r \in Slots : StartsWithoutCandidate(r) =>
          FailsAtOnce(r) /\ UNCHANGED responseCache]_vars

\* C11 amended: such a request changes neither provider, window nor
\* statistics, and the only cache entry it can remove is the expired entry
\* of its own key.
C11_NoProvidersKeepsLiveEntries ==
    [][\A r \in Slots : StartsWithoutCandidate(r) =>
          /\ FailsAtOnce(r)
          /\ \A k \in DOMAIN responseCache' :
                k \in DOMAIN responseCache /\ responseCache'[k] = responseCache[k]
          /\ \A k \in DOMAIN responseCache \ DOMAIN responseCache' :
                /\ k = req'[r].key
                /\ now - responseCache[k].timestamp > CacheTTL]_vars

\* A text request failed with NoProvidersAvailable after its read removed
\* the expired entry of its key, which no sweep had met yet.
C11_Witness ==
    \E r \in Slots :
        /\ req[r].pc = "done" /\ req[r].result = "NoProviders"
        /\ req[r].kind = "text"
        /\ NoCandidate("text")
        /\ req[r].key \in DOMAIN hist.lastIns
        /\ req[r].key \notin DOMAIN responseCache
        /\ now - hist.lastIns[req[r].key].timestamp > CacheTTL
        /\ (nextCleanup - CleanupInterval) - hist.lastIns[req[r].key].timestamp
               <= CacheTTL

\* C12: the aggregate error of a request that ends after at least one
\* failed attempt names the error of its last failed attempt (req.failed is
\* the provider of that attempt), for text and for image requests.
C12_AggregateCarriesLastError ==
    \A r \in Slots :
        (req[r].pc = "done" /\ req[r].result = "AllFailed"
         /\ req[r].failed # "none")
            => req[r].thrown = req[r].failed

\* The same for the requests of generateText alone.
TextCarriesLastError ==
    \A r \in Slots :
        (req[r].pc = "done" /\ req[r].result = "AllFailed"
         /\ req[r].kind = "text" /\ req[r].failed # "none")
            => req[r].thrown = req[r].failed

(***************************************************************************)
(* Ordered fallback.                                                       *)
(***************************************************************************)
\* An adapter call of request r starts in this step.
CallStarts(r) == req'[r].calls = req[r].calls + 1

\* C13: a request has an HTTP call in flight exactly while it awaits one,
\* and never more than one; a call of a request that has made one before
\* starts in the step in which the call before it ended with an error.
C13_OneCallInFlight ==
    [][\A r \in Slots :
          /\ req'[r].calls - req'[r].settled
                = (IF req'[r].pc = "inflight" THEN 1 ELSE 0)
          /\ (CallStarts(r) /\ req[r].calls > 0)
                => /\ req[r].pc = "inflight"
                   /\ req'[r].settled = req[r].calls
                   /\ req'[r].failed = req[r].cands[req[r].idx]
                   /\ req'[r].idx > req[r].idx]_vars

\* One request calls its second candidate, after the failure of the first,
\* while another request has a call in flight.
C13_Witness ==
    \E r, q \in Slots :
        /\ r # q
        /\ req[r].pc = "inflight" /\ req[r].idx = 2 /\ req[r].calls = 2
        /\ req[r].settled = 1 /\ req[r].failed = req[r].cands[1]
        /\ req[q].pc = "inflight"

\* The candidate called in this step is the first one, after the candidate
\* the request was at (none for a request that starts), that the rate
\* limiter admits.
FirstAdmitted(r) ==
    LET from == IF req[r].pc = "idle" THEN 0 ELSE req[r].idx
        to == req'[r].idx
    IN  /\ to > from
        /\ \A j \in (from + 1)..(to - 1) : Denied(req'[r].cands[j])
        /\ ~Denied(req'[r].cands[to])
        /\ req'[r].checks = req[r].checks + (to - from)

\* C14: a request calls the first admitted candidate after the one that
\* failed, in list order; when a call succeeds the request ends with the
\* response of the candidate called, and makes no rate-limit check and no
\* call after it.
C14_FirstSuccessWins ==
    [][\A r \in Slots :
          /\ (req'[r].pc \in {"inflight", "rejected"}
               /\ (req[r].pc = "idle" \/ req'[r].idx # req[r].idx))
                => /\ FirstAdmitted(r)
                   /\ req[r].pc # "idle"
                         => req'[r].failed = req[r].cands[req[r].idx]
          /\ (req[r].pc = "inflight" /\ req'[r].pc = "done"
               /\ req'[r].result = "ok")
                => /\ req'[r].response.provider = req[r].cands[req[r].idx]
                   /\ req'[r].checks = req[r].checks
                   /\ req'[r].calls = req[r].calls
                   /\ UNCHANGED requestCounts
          /\ req[r].pc = "done" => req'[r].pc \in {"done", "idle"}]_vars

\* A request answered by its second candidate after the first one failed.
C14_Witness ==
    \E r \in Slots :
        /\ req[r].pc = "done" /\ req[r].result = "ok" /\ ~req[r].cached
        /\ Len(req[r].cands) = 2
        /\ req[r].response.provider = req[r].cands[2]
        /\ req[r].failed = req[r].cands[1]
        /\ req[r].checks = 2 /\ req[r].calls = 2

(***************************************************************************)
(* The cache switch.                                                       *)
(***************************************************************************)
\* C15: with caching disabled the cache map stays empty, no request is
\* answered from it, and every generateText call goes through candidate
\* selection: it fails with NoProvidersAvailable when no text provider is
\* available and checks the rate limit of a candidate otherwise.
C15_DisabledCacheUnused ==
    [][~cacheEnabled =>
          /\ responseCache = <<>> /\ responseCache' = <<>>
          /\ \A r \in Slots :
                /\ ~req'[r].cached
                /\ (Starts(r) /\ req'[r].kind = "text")
                      => IF NoCandidate("text")
                         THEN req'[r].result = "NoProviders"
                         ELSE /\ req'[r].cands # <<>>
                              /\ req'[r].checks >= 1]_vars

\* With caching disabled, a second request of the same prompt was answered
\* by the provider again.
C15_Witness ==
    /\ ~cacheEnabled
    /\ responseCache = <<>>
    /\ stats["openrouter"].success >= 2
    /\ \E r \in Slots :
          /\ req[r].pc = "done" /\ req[r].result = "ok" /\ ~req[r].cached
          /\ req[r].calls = 1

(***************************************************************************)
(* Availability.                                                           *)
(***************************************************************************)
\* C16: the provider a request calls is available at the moment the call
\* starts, whether the call is the first of the request or follows the
\* failure of an earlier candidate.
C16_CalledProviderAvailable ==
    [][\A r \in Slots :
          (req'[r].pc \in {"inflight", "rejected"}
           /\ (req[r].pc = "idle" \/ req'[r].idx # req[r].idx))
              => isAvailable'[req'[r].cands[req'[r].idx]]]_vars

\* A recovery of provider p is pending.
RecoveryPending(p) == \E i \in 1..Len(timers) : timers[i].p = p

\* C17: a provider that holds a credential (one without is never
\* available) is unavailable exactly when its failure count has reached the
\* threshold and a recovery is pending.
C17_UnavailableIffTripped ==
    \A p \in apiKeys :
        ~isAvailable[p] <=> (errors[p] >= FailureThreshold /\ RecoveryPending(p))

\* The half of it that the program keeps: an available provider is below
\* the threshold.
AvailableBelowThreshold ==
    \A p \in Providers : isAvailable[p] => errors[p] < FailureThreshold

(***************************************************************************)
(* Statistics.                                                             *)
(***************************************************************************)
\* C20: the statistics of a provider count the attempts of generateText
\* completed on it (hist.attempted) and those of them that succeeded
\* (hist.succeeded), whatever the interleaving of the requests.
C20_StatsCountAttempts ==
    \A p \in Providers :
        /\ stats[p].total = hist.attempted[p]
        /\ stats[p].success = hist.succeeded[p]

\* An attempt on a provider has just succeeded while the call of another
\* request on the same provider is in flight, after a failed attempt on it.
C20_Witness ==
    \E r, q \in Slots, p \in Providers :
        /\ req[r].pc = "done" /\ req[r].result = "ok" /\ ~req[r].cached
        /\ req[r].response.provider = p
        /\ req[q].pc = "inflight" /\ req[q].cands[req[q].idx] = p
        /\ stats[p].total >= 2
        /\ stats[p].success < stats[p].total

(***************************************************************************)
(* Memory manager: the in-memory lists.                                    *)
(***************************************************************************)
Users == {<<"u1">>, <<"u2">>}
Channels == {<<"c1">>}
ConnectionIds == {<<"u1", "-", "u2">>}

\* The keys the callers use in each tier.
TierKeys(tier) ==
    CASE tier = "contextual" -> Channels
      [] tier = "connections" -> ConnectionIds
      [] OTHER -> Users

\* The data of an entry: a message carries the id of its author (the
\* messageCreate handler); the data of the other tiers carries none.
DataFor(tier) ==
    IF tier = "contextual" THEN {[userId |-> u] : u \in Users}
    ELSE {[userId |-> NoId]}

\* getMemory(tier, key) without limit: tierMemory.get(key) || []
GetMemory(mem, tier, key) ==
    IF key \in DOMAIN mem[tier] THEN mem[tier][key] ELSE <<>>

\* tierMemory.set(key, list)
SetList(mem, tier, key, list) ==
    [mem EXCEPT ![tier] =
        [k \in DOMAIN mem[tier] \cup {key} |->
            IF k = key THEN list ELSE mem[tier][k]]]

\* tierMemory.delete(key)
DeleteKey(mem, tier, key) ==
    [mem EXCEPT ![tier] = [k \in DOMAIN mem[tier] \ {key} |-> mem[tier][k]]]

\* addMemory that drops the entry it has just pushed (pop for shift)
AddMemoryDropNewest(mem, tier, key, entry) ==
    LET pushed == Append(GetMemory(mem, tier, key), entry)
        kept == IF Len(pushed) > MaxEntries
                THEN SubSeq(pushed, 1, Len(pushed) - 1) ELSE pushed
    IN  SetList(mem, tier, key, kept)

\* addMemory up to its await: push, then shift once when the list is
\* longer than maxEntries.
AddMemory(mem, tier, key, entry) ==
    LET pushed == Append(GetMemory(mem, tier, key), entry)
        kept == IF Len(pushed) > MaxEntries THEN Tail(pushed) ELSE pushed
    IN  SetList(mem, tier, key, kept)

\* loadPersistedMemories over the documents of loadAllMemories, which come
\* sorted by entry.timestamp: every document is pushed on its list.
RECURSIVE LoadPersistedMemories(_, _)
LoadPersistedMemories(mem, docs) ==
    IF docs = {} THEN mem
    ELSE LET d == CHOOSE x \in docs : \A y \in docs : x.entry.id <= y.entry.id
         IN  LoadPersistedMemories(
                 SetList(mem, d.tier, d.key,
                         Append(GetMemory(mem, d.tier, d.key), d.entry)),
                 docs \ {d})

\* connectionId.includes(userId)
Includes(connectionId, userId) ==
    \E i \in 0..(Len(connectionId) - Len(userId)) :
        SubSeq(connectionId, i + 1, i + Len(userId)) = userId

\* exportUserData(userId)
ExportUserData(mem, userId) ==
    [contextual |->
        {[channelId |-> c,
          entries |-> SelectSeq(mem["contextual"][c],
                                LAMBDA e : e.data.userId = userId)] :
            c \in {x \in DOMAIN mem["contextual"] :
                      \E i \in 1..Len(mem["contextual"][x]) :
                          mem["contextual"][x][i].data.userId = userId}},
     personality |-> GetMemory(mem, "personality", userId),
     individual |-> GetMemory(mem, "individual", userId),
     connections |->
        {[connectionId |-> c, entries |-> mem["connections"][c]] :
            c \in {x \in DOMAIN mem["connections"] : Includes(x, userId)}}]

(***************************************************************************)
(* Memory manager: the handlers, each cut at its awaits.                   *)
(***************************************************************************)
NoEntry == [id |-> 0, data |-> [userId |-> NoId]]

\* An operation on the `memories` collection that a handler awaits; cont is
\* what the handler does when it resolves.
DbOp(op, tier, key, entry, cont, user) ==
    [op |-> op, tier |-> tier, key |-> key, entry |-> entry, cont |-> cont,
     user |-> user]

\* The memory manager accepts a call: it is initialized, no reply is being
\* sent, and the awaited operations are within the bound of the model.
MemReady ==
    /\ memPhase = "ready"
    /\ memReply = NoReply
    /\ Cardinality(memOps) < MaxPending

\* MemoryManager.initialize: loadPersistedMemories, whose failure is caught.
MemInitialize ==
    /\ memPhase = "constructed"
    /\ \E loaded \in BOOLEAN :
          memories' = IF loaded THEN LoadPersistedMemories(memories, mongo)
                      ELSE memories
    /\ memPhase' = "ready"
    /\ UNCHANGED <<orchVars, botVars, mongo, memOps, memReply, memHist>>

\* update<Tier>Memory(key, data): addMemory up to `await persistMemory`.
UpdateMemory(tier, key, data) ==
    LET entry == [id |-> memHist.created + 1, data |-> data]
    IN  /\ MemReady
        /\ memHist.created < MaxCreated
        /\ memories' = AddMemory(memories, tier, key, entry)
        /\ memOps' = memOps \cup {DbOp("save", tier, key, entry, "none", NoId)}
        /\ memHist' = [memHist EXCEPT !.created = @ + 1]
        /\ UNCHANGED <<orchVars, botVars, mongo, memPhase, memReply>>

\* clearMemory(tier, key) up to `await deleteMemory`.
ClearMemory(tier, key) ==
    /\ MemReady
    /\ key \in DOMAIN memories[tier]
    /\ memories' = DeleteKey(memories, tier, key)
    /\ memOps' = memOps \cup {DbOp("deleteMany", tier, key, NoEntry, "none", NoId)}
    /\ UNCHANGED <<orchVars, botVars, mongo, memPhase, memReply, memHist>>

\* clearMemory(tier) up to `await clearMemoryTier`.
ClearTier(tier) ==
    /\ MemReady
    /\ memories[tier] # <<>>
    /\ memories' = [memories EXCEPT ![tier] = <<>>]
    /\ memOps' = memOps \cup {DbOp("clearTier", tier, NoId, NoEntry, "none", NoId)}
    /\ UNCHANGED <<orchVars, botVars, mongo, memPhase, memReply, memHist>>

\* an index test that starts at 1
ValidIndexFromOne(tier, key, index) ==
    /\ key \in DOMAIN memories[tier]
    /\ index >= 1 /\ index < Len(memories[tier][key])

\* !(!entries || index < 0 || index >= entries.length)
ValidIndex(tier, key, index) ==
    /\ key \in DOMAIN memories[tier]
    /\ index >= 0 /\ index < Len(memories[tier][key])

\* removeMemoryEntry(tier, key, index) with a valid index, up to `await
\* deleteMemoryEntry`; with another index it throws and changes nothing.
RemoveMemoryEntry(tier, key, index) ==
    LET entries == GetMemory(memories, tier, key)
    IN  /\ MemReady
        /\ ValidIndex(tier, key, index)
        /\ memories' = SetList(memories, tier, key,
                               SubSeq(entries, 1, index) \o
                               SubSeq(entries, index + 2, Len(entries)))
        /\ memOps' = memOps \cup
              {DbOp("deleteOne", tier, key, entries[index + 1], "none", NoId)}
        /\ UNCHANGED <<orchVars, botVars, mongo, memPhase, memReply, memHist>>

\* removeMemoryEntry(tier, key, index) that throws 'Invalid memory index';
\* handleMemory catches the error and replies with it.
RemoveMemoryEntryThrows(tier, key, index) ==
    /\ MemReady
    /\ ~ValidIndex(tier, key, index)
    /\ memReply' = [command |-> "Invalid memory index", user |-> NoId,
                    tier |-> tier, key |-> key, index |-> index]
    /\ UNCHANGED <<orchVars, botVars, memories, mongo, memPhase, memOps, memHist>>

\* handleData, action 'delete', up to the await of its first clearMemory.
DataDelete(user) ==
    /\ MemReady
    /\ \A o \in memOps : o.user # user
    /\ memories' = DeleteKey(memories, "personality", user)
    /\ memOps' = memOps \cup
          {DbOp("deleteMany", "personality", user, NoEntry, "data1", user)}
    /\ UNCHANGED <<orchVars, mongo, memPhase, memReply, memHist>>

\* The collection after operation o.
Applied(o) ==
    CASE o.op = "save" ->
            mongo \cup {[tier |-> o.tier, key |-> o.key, entry |-> o.entry]}
      [] o.op = "deleteMany" ->
            {d \in mongo : ~(d.tier = o.tier /\ d.key = o.key)}
      [] o.op = "clearTier" ->
            {d \in mongo : d.tier # o.tier}
      [] o.op = "deleteOne" ->
            {d \in mongo : ~(d.tier = o.tier /\ d.key = o.key
                              /\ d.entry.id = o.entry.id)}

\* An awaited operation settles.  When it rejects, persistMemory logs the
\* error and the other handlers throw.  When it resolves, handleData goes
\* on: after the first clearMemory to the second, after the second to its
\* reply.
DbSettle(o, ok) ==
    /\ memReply = NoReply
    /\ o \in memOps
    /\ mongo' = IF ok THEN Applied(o) ELSE mongo
    /\ IF ok /\ o.cont = "data1"
       THEN /\ memories' = DeleteKey(memories, "individual", o.user)
            /\ memOps' = (memOps \ {o}) \cup
                  {DbOp("deleteMany", "individual", o.user, NoEntry, "data2",
                        o.user)}
            /\ UNCHANGED memReply
       ELSE /\ memOps' = memOps \ {o}
            /\ memReply' = IF ok /\ o.cont = "data2"
                            THEN [command |-> "data delete", user |-> o.user]
                            ELSE memReply
            /\ UNCHANGED memories
    /\ UNCHANGED <<orchVars, botVars, memPhase, memHist>>

\* interaction.reply of the command has been sent.
Reply ==
    /\ memReply # NoReply
    /\ memReply' = NoReply
    /\ UNCHANGED <<orchVars, botVars, memories, mongo, memPhase, memOps, memHist>>

\* The process is restarted while it awaits nothing: a new MemoryManager
\* over the same collection.
Restart ==
    /\ memPhase = "ready"
    /\ memReply = NoReply
    /\ memOps = {}
    /\ memHist.restarts < MaxRestarts
    /\ memories' = [t \in Tiers |-> <<>>]
    /\ memPhase' = "constructed"
    /\ memHist' = [memHist EXCEPT !.restarts = @ + 1]
    /\ UNCHANGED <<orchVars, botVars, mongo, memOps, memReply>>

NextMemory ==
    \/ MemInitialize
    \/ \E t \in Tiers : \E k \in TierKeys(t), d \in DataFor(t) : UpdateMemory(t, k, d)
    \/ \E t \in Tiers : \E k \in TierKeys(t) : ClearMemory(t, k)
    \/ \E t \in Tiers : ClearTier(t)
    \/ \E t \in Tiers : \E k \in TierKeys(t), i \in 0..MaxEntries :
          RemoveMemoryEntry(t, k, i)
    \/ \E u \in Users : DataDelete(u) /\ UNCHANGED botVars
    \/ \E o \in memOps, ok \in BOOLEAN : DbSettle(o, ok)
    \/ Reply
    \/ Restart

\* The orchestrator is left as constructed, without credential.
InitMemory ==
    /\ apiKeys = {}
    /\ cacheEnabled = TRUE
    /\ env = [prompts |-> {}, horizon |-> 0, limit |-> 0, cap |-> 0,
              latency |-> 0]
    /\ Constructed

SpecMemory == InitMemory /\ [][NextMemory]_vars

(***************************************************************************)
(* Memory properties.                                                      *)
(***************************************************************************)
\* C18: no in-memory list, of any tier and key, is longer than maxEntries.
C18_ListsBounded ==
    \A t \in Tiers : \A k \in DOMAIN memories[t] :
        Len(memories[t][k]) <= MaxEntries

\* C19: when /data delete of a user has completed, exportUserData of that
\* user returns four empty collections.
C19_DeleteLeavesNothing ==
    memReply.command = "data delete" =>
        LET data == ExportUserData(memories, memReply.user)
        IN  /\ data.contextual = {}
            /\ data.personality = <<>>
            /\ data.individual = <<>>
            /\ data.connections = {}

(***************************************************************************)
(* Attempts: what the end of a call leaves behind.                         *)
(***************************************************************************)
\* The call of request r on its candidate ends in this step: the
\* continuation of `await this.callProvider(...)` runs.
AttemptEnds(r) ==
    /\ req[r].pc \in {"inflight", "rejected"}
    /\ req'[r] # req[r]

AttemptSucceeds(r) ==
    AttemptEnds(r) /\ req'[r].pc = "done" /\ req'[r].result = "ok"

AttemptFails(r) == AttemptEnds(r) /\ ~AttemptSucceeds(r)

\* the provider of the call that ends
Attempted(r) == req[r].cands[req[r].idx]

\* C21: the end of an attempt of an image request adds 1 to the statistics
\* total of its provider, and 1 to the success count when it succeeded.
C21_ImageAttemptsRecorded ==
    [][\A r \in Slots :
          (AttemptEnds(r) /\ req[r].kind = "image")
              => /\ stats'[Attempted(r)].total = stats[Attempted(r)].total + 1
                 /\ stats'[Attempted(r)].success =
                       stats[Attempted(r)].success
                       + (IF AttemptSucceeds(r) THEN 1 ELSE 0)]_vars

\* C22: the cache serves image requests as it serves text requests
\* (req.asked is the cache key of the arguments of a request): an image
\* request that starts within the TTL of the latest insertion under the key
\* of its arguments is answered from the cache without any provider logic,
\* and a successful image attempt stores its response under that key.
C22_CacheServesImages ==
    [][\A r \in Slots :
          /\ (Starts(r) /\ req'[r].kind = "image" /\ cacheEnabled)
                => LET k == req'[r].asked
                   IN  (k \in DOMAIN hist.lastIns
                        /\ now - hist.lastIns[k].timestamp <= CacheTTL)
                          => AnsweredFromCache(r, hist.lastIns[k].response)
          /\ (AttemptSucceeds(r) /\ req[r].kind = "image" /\ cacheEnabled)
                => /\ req[r].asked \in DOMAIN responseCache'
                   /\ responseCache'[req[r].asked].response = req'[r].response]_vars


\* C23: between handlers every provider's success rate is 100 percent while
\* its statistics count no attempt and success/total of 100 percent
\* afterwards, and it lies between 0 and 100 percent.
C23_RateDerivedFromStats ==
    \A p \in Providers :
        /\ successRate[p] = IF stats[p].total = 0 THEN <<1, 1>>
                                                  ELSE <<stats[p].success, stats[p].total>>
        /\ successRate[p][2] > 0
        /\ 0 <= successRate[p][1]
        /\ successRate[p][1] <= successRate[p][2]

\* a provider with successes and failures, and an image provider that failed
\* with no attempt in its statistics
C23_Witness ==
    /\ \E p \in Providers : /\ stats[p].total >= 2
                            /\ 0 < stats[p].success
                            /\ stats[p].success < stats[p].total
    /\ \E p \in Providers : errors[p] > 0 /\ stats[p].total = 0


\* C24: the statistics of a provider only grow (total, success and the
\* summed latency never decrease in a step), and 0 <= success <= total in
\* every state.
C24_StatsOnlyGrow ==
    /\ [](\A p \in Providers : /\ 0 <= stats[p].success
                                /\ stats[p].success <= stats[p].total)
    /\ [][\A p \in Providers :
             /\ stats'[p].total >= stats[p].total
             /\ stats'[p].success >= stats[p].success
             /\ stats'[p].totalLatency >= stats[p].totalLatency]_vars

\* a provider whose attempts succeeded and failed and took time
C24_Witness ==
    \E p \in Providers :
        /\ stats[p].total >= 2
        /\ 0 < stats[p].success
        /\ stats[p].success < stats[p].total
        /\ stats[p].totalLatency >= 2 * TickMs

\* The candidates request r passed over in this step: those between the
\* candidate it was on (none when it starts) and the one it calls next, or
\* the end of the list when it gives up.
Skipped(r) ==
    LET from == IF req[r].pc = "idle" THEN 0 ELSE req[r].idx
        cands == req'[r].cands
        to == IF req'[r].pc \in {"inflight", "rejected"} THEN req'[r].idx - 1
              ELSE IF req'[r].pc = "done" /\ req'[r].result = "AllFailed"
                   THEN Len(cands)
                   ELSE from
    IN  IF req[r].pc \in {"idle", "inflight", "rejected"} /\ req'[r] # req[r]
        THEN {cands[j] : j \in (from + 1)..to}
        ELSE {}

\* C25: a candidate the rate limiter denied is passed over without a
\* trace: its failure count, availability, success rate, statistics and
\* window record stay as they are, and no cache entry is written.
C25_SkipLeavesNoTrace ==
    [][\A r \in Slots : \A p \in Skipped(r) :
          Denied(p)
             => /\ errors'[p] = errors[p]
                /\ isAvailable'[p] = isAvailable[p]
                /\ successRate'[p] = successRate[p]
                /\ stats'[p] = stats[p]
                /\ requestCounts'[p] = requestCounts[p]
                /\ \A k \in DOMAIN responseCache' :
                      /\ k \in DOMAIN responseCache
                      /\ responseCache'[k] = responseCache[k]]_vars

\* a request whose first candidate was denied and skipped is calling its
\* second one, and the skipped provider has a record to lose
C25_Witness ==
    \E r \in Slots :
        /\ req[r].pc = "inflight"
        /\ req[r].idx = 2
        /\ req[r].checks = 2
        /\ req[r].calls = 1
        /\ stats[req[r].cands[1]].total > 0
        /\ requestCounts[req[r].cands[1]].count > 0

\* Request r is admitted by the rate limiter in this step and starts an
\* attempt on a candidate.
AttemptStarts(r) ==
    /\ req'[r].pc \in {"inflight", "rejected"}
    /\ req'[r] # req[r]

\* counts.count of p as checkRateLimit sees it at this instant
CountAtCheck(p) ==
    IF now - requestCounts[p].window >= providers[p].window
    THEN 0
    ELSE requestCounts[p].count

\* C26: every attempt the rate limiter admits takes one unit of the window
\* budget of its provider: when the attempt starts, the window count is one
\* higher than at the check, for every registered provider.
C26_AdmittedConsumesOne ==
    [][\A r \in Slots :
          AttemptStarts(r)
             => LET p == req'[r].cands[req'[r].idx]
                IN  /\ CountAtCheck(p) < Requests(p)
                    /\ requestCounts'[p].count = CountAtCheck(p) + 1]_vars

\* C27: an error of a candidate never ends the request while a later
\* candidate can be called: the request goes on with the first later
\* candidate the rate limiter admits, and gives up with the aggregate error
\* only when there is none.  A request fails with NoProviders before any
\* check or call, or with the aggregate error after every candidate was
\* checked, and in no other way.
C27_ErrorsAbsorbed ==
    [][\A r \in Slots :
          /\ AttemptFails(r)
                => LET cands == req[r].cands
                       later == {j \in (req[r].idx + 1)..Len(cands) :
                                    ~Denied(cands[j])}
                   IN  IF later # {}
                       THEN /\ req'[r].pc \in {"inflight", "rejected"}
                            /\ req'[r].idx \in later
                            /\ \A j \in later : req'[r].idx <= j
                       ELSE /\ req'[r].pc = "done"
                            /\ req'[r].result = "AllFailed"
          /\ (req'[r].pc = "done" /\ req[r].pc # "done")
                => \/ req'[r].result = "ok"
                   \/ /\ req'[r].result = "NoProviders"
                      /\ req[r].pc = "idle"
                      /\ req'[r].cands = <<>>
                      /\ req'[r].checks = 0 /\ req'[r].calls = 0
                   \/ /\ req'[r].result = "AllFailed"
                      /\ req'[r].cands # <<>>
                      /\ req'[r].checks = Len(req'[r].cands)]_vars

\* the first candidate of a request failed and the request is calling the
\* second one
C27_Witness ==
    \E r \in Slots :
        /\ req[r].pc = "inflight"
        /\ req[r].idx = 2
        /\ req[r].calls = 2
        /\ req[r].failed = req[r].cands[1]

\* C28: the candidates of a request are exactly the registered providers
\* of its modality or of type multimodal that are available, each once.
C28_CandidatesExactlyEligible ==
    [][\A r \in Slots :
          (Starts(r) /\ ~req'[r].cached)
             => LET cands == req'[r].cands
                    m == req'[r].kind
                IN  /\ {cands[j] : j \in 1..Len(cands)}
                          = {p \in Providers :
                                /\ providers[p].type \in {m, "multimodal"}
                                /\ isAvailable[p]}
                    /\ \A i, j \in 1..Len(cands) :
                          cands[i] = cands[j] => i = j]_vars

\* a request starts with the multimodal provider among its candidates while
\* a provider of its own modality is unavailable
C28_Witness ==
    \E r \in Slots :
        /\ req[r].pc \in {"inflight", "rejected"}
        /\ \E j \in 1..Len(req[r].cands) :
              providers[req[r].cands[j]].type = "multimodal"
        /\ \E p \in Providers :
              /\ providers[p].type = req[r].kind
              /\ p \in apiKeys
              /\ ~isAvailable[p]
        /\ req[r].calls + req[r].settled = 0
        /\ req[r].failed = "none"

\* C29: an attempt that ends in an error, the timeout of the HTTP call
\* included, is not recorded as a success and leaves the cache as it is.
C29_FailureNotRecordedAsSuccess ==
    [][\A r \in Slots :
          AttemptFails(r)
             => /\ \A p \in Providers : stats'[p].success = stats[p].success
                /\ responseCache' = responseCache]_vars

\* the only attempt on a provider ran into the timeout, while another
\* provider has a success recorded and the cache holds its response
C29_Witness ==
    \E r \in Slots, p \in Providers :
        /\ req[r].pc = "done"
        /\ req[r].result = "AllFailed"
        /\ req[r].failed = p
        /\ stats[p] = [total |-> 1, success |-> 0, totalLatency |-> ApiTimeout]
        /\ \E q \in Providers : stats[q].success > 0
        /\ responseCache # <<>>

\* C30: in the step in which an unavailable provider becomes available
\* again its failure counter is 0, and the circuit breaker disables a
\* provider only on the fifth or a later failed attempt in a row since its
\* last success or recovery (hist.streak).
C30_RecoveryStartsAfresh ==
    [][\A p \in Providers :
          /\ (~isAvailable[p] /\ isAvailable'[p]) => errors'[p] = 0
          /\ (phase = "ready" /\ isAvailable[p] /\ ~isAvailable'[p])
                => /\ hist.streak'[p] >= FailureThreshold
                   /\ errors'[p] >= FailureThreshold]_vars

\* a provider that recovered after its cool-down is disabled again by its
\* fifth failure since
C30_Witness ==
    \E p \in Providers :
        /\ ~isAvailable[p]
        /\ hist.trippedAt[p] >= CoolDown
        /\ hist.streak[p] = FailureThreshold
        /\ errors[p] = FailureThreshold

\* the recovery timers pending for provider p
PendingRecoveries(p) == {i \in 1..Len(timers) : timers[i].p = p}

\* C31: the failure counter of an available provider goes back to 0 only
\* by a successful attempt on that provider, and a provider never has more
\* than one recovery timer pending.
C31_OneRecoveryPerOpenPeriod ==
    /\ [](\A p \in Providers : Cardinality(PendingRecoveries(p)) <= 1)
    /\ [][\A p \in Providers :
             (isAvailable[p] /\ errors[p] > 0 /\ errors'[p] = 0)
                => \E r \in Slots : AttemptSucceeds(r) /\ Attempted(r) = p]_vars

\* C31, second half alone: only a success resets the counter of an
\* available provider.
C31_ResetOnlyBySuccess ==
    [][\A p \in Providers :
          (isAvailable[p] /\ errors[p] > 0 /\ errors'[p] = 0)
             => \E r \in Slots : AttemptSucceeds(r) /\ Attempted(r) = p]_vars

(***************************************************************************)
(* getProviderStats and switchModel.                                       *)
(***************************************************************************)
ModelNames == {"auto", "m1"}

\* Math.round(x / y) for x >= 0, y > 0
RoundDiv(x, y) == (2 * x + y) \div (2 * y)

\* The record getProviderStats pushes for provider p; successRate is
\* toFixed(2) of the rate, in hundredths of a percent.  lastUsed is not
\* part of the model.
StatsRecord(p) ==
    [name |-> p,
     type |-> providers[p].type,
     available |-> isAvailable[p],
     errors |-> errors[p],
     successRate |-> RoundDiv(successRate[p][1] * 10000, successRate[p][2]),
     requestsInWindow |-> requestCounts[p].count,
     rateLimit |-> [requests |-> providers[p].requests,
                    window |-> providers[p].window],
     totalRequests |-> stats[p].total,
     avgLatency |-> IF stats[p].total > 0
                    THEN RoundDiv(stats[p].totalLatency, stats[p].total)
                    ELSE 0]

\* a comparator that sorts by total attempts ascending
CompareTotalAscending(a, b) == a.totalRequests - b.totalRequests

\* (a, b) => b.totalRequests - a.totalRequests
CompareTotal(a, b) == b.totalRequests - a.totalRequests

RECURSIVE InsertByTotal(_, _)
InsertByTotal(s, x) ==
    IF s = <<>> THEN <<x>>
    ELSE IF CompareTotal(s[Len(s)], x) > 0
         THEN Append(InsertByTotal(SubSeq(s, 1, Len(s) - 1), x), s[Len(s)])
         ELSE Append(s, x)

\* stats.sort(...) over the records in registration order
RECURSIVE SortByTotal(_)
SortByTotal(s) ==
    IF s = <<>> THEN <<>>
    ELSE InsertByTotal(SortByTotal(SubSeq(s, 1, Len(s) - 1)), s[Len(s)])

\* getProviderStats(): the array handed to the caller.
GetProviderStats ==
    /\ report = NoReport
    /\ Quiet
    /\ report' = SortByTotal([i \in 1..Len(Names) |-> StatsRecord(Names[i])])
    /\ UNCHANGED <<orchVars, memVars, providers, activeModel, cmdVars, procVars>>

\* The caller of getProviderStats has used the array.
ReturnStats ==
    /\ report # NoReport
    /\ report' = NoReport
    /\ UNCHANGED <<orchVars, memVars, providers, activeModel, cmdVars, procVars>>

\* a switchModel that also puts the providers of type multimodal first
SwitchModelPromoting(modelName) ==
    /\ report = NoReport
    /\ Quiet
    /\ activeModel' = modelName
    /\ providers' = [p \in Providers |->
                       IF providers[p].type = "multimodal"
                       THEN [providers[p] EXCEPT !.priority = 0]
                       ELSE providers[p]]
    /\ UNCHANGED <<orchVars, memVars, report, cmdVars, procVars>>

\* a switchModel that also closes the circuit breakers
SwitchModelResetting(modelName) ==
    /\ report = NoReport
    /\ Quiet
    /\ activeModel' = modelName
    /\ errors' = [p \in Providers |-> 0]
    /\ UNCHANGED <<memVars, providers, report, cmdVars, procVars, apiKeys,
                   cacheEnabled, phase, now, isAvailable, successRate,
                   requestCounts, stats, responseCache, timers, nextCleanup,
                   req, env, hist>>

\* switchModel(modelName)
SwitchModel(modelName) ==
    /\ report = NoReport
    /\ Quiet
    /\ activeModel' = modelName
    /\ UNCHANGED <<orchVars, memVars, providers, report, cmdVars, procVars>>

\* The orchestrator with the callers of generate, of getProviderStats and
\* of switchModel; the continuation of an await on getProviderStats runs
\* before any other event.
NextAdmin ==
    \/ report = NoReport /\ Next
    \/ GetProviderStats
    \/ ReturnStats
    \/ \E m \in ModelNames : SwitchModel(m)

SpecAdmin == InitModal /\ [][NextAdmin]_vars

\* C32: getProviderStats returns one record for each registered provider,
\* with the total of the statistics of that provider, in order of
\* non-increasing total, and changes nothing but the array it returns.
C32_StatsReportSortedReadOnly ==
    [][(report = NoReport /\ report' # NoReport)
          => /\ Len(report') = Cardinality(Providers)
             /\ {report'[i].name : i \in 1..Len(report')} = Providers
             /\ \A i \in 1..Len(report') :
                   report'[i].totalRequests = stats[report'[i].name].total
             /\ \A i, j \in 1..Len(report') :
                   i < j => report'[i].totalRequests >= report'[j].totalRequests
             /\ UNCHANGED <<providers, isAvailable, errors, successRate,
                            requestCounts, stats, responseCache, timers,
                            activeModel>>]_vars

\* a report in which the sort changed the order of registration: the
\* provider registered seventh comes first
C32_Witness ==
    /\ report # NoReport
    /\ report[1].name = "deepai"
    /\ report[1].totalRequests >= 2
    /\ report[2].totalRequests = 0
    /\ report[2].name = "openrouter"

\* C33: the type, priority and rate budget registered for a provider, and
\* the names registered, stay as initializeProviders set them.
C33_RegistrationImmutable ==
    /\ DOMAIN providers = Providers
    /\ \A p \in Providers :
          /\ providers[p].type = Registry[p].type
          /\ providers[p].priority = Registry[p].priority
          /\ providers[p].requests = Registry[p].requests
          /\ providers[p].window = Registry[p].window

\* after a switchModel call, with a provider that failed, was disabled and
\* has recovered, and one that answered
C33_Witness ==
    /\ activeModel # "auto"
    /\ \E p \in Providers : hist.trippedAt[p] # -1 /\ isAvailable[p]
    /\ \E p \in Providers : stats[p].success > 0

\* C34: a step that changes the active model changes nothing else, and
\* the candidates of a request are the available providers of its modality
\* in the order of success rate, failures and priority, whatever the active
\* model is.
C34_SwitchModelOnlyLabel ==
    [][/\ activeModel' # activeModel
          => UNCHANGED <<orchVars, memVars, providers, report, cmdVars,
                         procVars>>
       /\ \A r \in Slots :
             (Starts(r) /\ ~req'[r].cached)
                => LET cands == req'[r].cands
                   IN  /\ \A p \in Providers :
                             (\E i \in 1..Len(cands) : cands[i] = p)
                                <=> /\ providers[p].type
                                          \in {req'[r].kind, "multimodal"}
                                    /\ isAvailable[p]
                       /\ \A i, j \in 1..Len(cands) :
                             i < j => Compare(cands[i], cands[j]) <= 0]_vars

\* a request with two candidates started after the model was switched,
\* while a provider has failures counted
C34_Witness ==
    /\ activeModel # "auto"
    /\ \E r \in Slots : /\ req[r].pc \in {"inflight", "rejected"}
                         /\ Len(req[r].cands) >= 2
                         /\ req[r].calls + req[r].settled <= 1
    /\ \E p \in Providers : errors[p] > 0

\* C35: eviction is first in, first out.  An add (the step that creates
\* an entry) appends the entry to the list of its key and, when the list is
\* then longer than maxEntries, removes the head, which is the oldest entry
\* of the list; every list is in order of insertion.
C35_EvictionIsFifo ==
    /\ [](\A t \in Tiers : \A k \in DOMAIN memories[t] :
             \A i, j \in 1..Len(memories[t][k]) :
                 i < j => memories[t][k][i].id < memories[t][k][j].id)
    /\ [][memHist'.created = memHist.created + 1
             => \E t \in Tiers : \E k \in DOMAIN memories'[t] :
                   LET old == GetMemory(memories, t, k)
                       new == memories'[t][k]
                   IN  /\ new # <<>>
                       /\ new[Len(new)].id = memHist'.created
                       /\ IF Len(old) + 1 > MaxEntries
                          THEN /\ SubSeq(new, 1, Len(new) - 1) = Tail(old)
                               /\ \A i \in 1..Len(old) : old[1].id <= old[i].id
                          ELSE SubSeq(new, 1, Len(new) - 1) = old]_vars

\* a full list from which the first entry added was evicted
C35_Witness ==
    \E t \in Tiers : \E k \in DOMAIN memories[t] :
        /\ Len(memories[t][k]) = MaxEntries
        /\ memories[t][k][1].id = 2
        /\ memories[t][k][MaxEntries].id = MaxEntries + 1
        /\ memHist.created = MaxEntries + 1

(***************************************************************************)
(* Command handler.                                                        *)
(***************************************************************************)
Commands == {"optin", "data", "model", "ping", "pause", "resume"}
Features == {"f1"}

\* process.env.ADMIN_IDS
AdminIds == {<<"u1">>}

\* isAdmin(userId)
IsAdmin(userId) == userId \in AdminIds

\* a gate that lets every command through
NeverBlocked(commandName) == FALSE

\* this.isPaused && interaction.commandName !== 'resume'
Blocked(commandName) == isPaused /\ commandName # "resume"

\* interaction.reply(...) of the command of `user`; "none" while the
\* handler has not replied.
Answer(user, commandName, reply) ==
    interaction' = [user |-> user, command |-> commandName, reply |-> reply,
                    seq |-> interaction.seq + 1]

\* handlePause / handleResume
HandlePauseResume(user, commandName) ==
    IF IsAdmin(user)
    THEN /\ isPaused' = (commandName = "pause")
         /\ Answer(user, commandName, "ok")
    ELSE /\ Answer(user, commandName, "admin only")
         /\ UNCHANGED isPaused

\* handleCommand(interaction): the paused notice, or the handler of the
\* command.  handleData is the action 'delete', which replies after its
\* two clearMemory calls; handleModel is the action 'switch'.
HandleCommand(user, commandName) ==
    /\ interaction.seq < MaxCommands
    /\ IF Blocked(commandName)
       THEN /\ Answer(user, commandName, "paused")
            /\ UNCHANGED <<orchVars, memVars, adminVars, isPaused, preferences,
                           procVars>>
       ELSE CASE commandName \in {"pause", "resume"} ->
                    /\ HandlePauseResume(user, commandName)
                    /\ UNCHANGED <<orchVars, memVars, adminVars, preferences,
                                   procVars>>
              [] commandName = "optin" ->
                    /\ \E f \in Features :
                          preferences' = {x \in preferences :
                                             ~(x.user = user /\ x.feature = f)}
                                         \cup {[user |-> user, feature |-> f,
                                                 value |-> TRUE]}
                    /\ Answer(user, commandName, "ok")
                    /\ UNCHANGED <<orchVars, memVars, adminVars, isPaused,
                                   procVars>>
              [] commandName = "data" ->
                    /\ DataDelete(user)
                    /\ Answer(user, commandName, "none")
                    /\ UNCHANGED <<adminVars, isPaused, preferences, procVars>>
              [] commandName = "model" ->
                    /\ \E m \in ModelNames : activeModel' = m
                    /\ Answer(user, commandName, "ok")
                    /\ UNCHANGED <<orchVars, memVars, providers, report,
                                   isPaused, preferences, procVars>>
              [] OTHER ->
                    /\ Answer(user, commandName, "ok")
                    /\ UNCHANGED <<orchVars, memVars, adminVars, isPaused,
                                   preferences, procVars>>

\* The bot with its users: messages that become memories, commands, and
\* the database operations the handlers await.
NextCommands ==
    \/ MemInitialize
    \/ \E t \in {"personality", "individual"} :
          \E k \in Users, d \in DataFor(t) : UpdateMemory(t, k, d)
    \/ \E u \in Users, c \in Commands : HandleCommand(u, c)
    \/ \E o \in memOps, ok \in BOOLEAN : DbSettle(o, ok)
    \/ Reply

SpecCommands == InitMemory /\ [][NextCommands]_vars

\* A command is received in this step.
Received == interaction'.seq = interaction.seq + 1

\* C36: a command other than resume received while the handler is paused
\* gets the paused notice and changes nothing else, whatever handlers that
\* started earlier are doing; the pause flag changes only in the step of a
\* pause or resume command of an administrator.
C36_PausedRunsNoHandler ==
    [][/\ (isPaused /\ Received /\ interaction'.command # "resume")
             => /\ interaction'.reply = "paused"
                /\ UNCHANGED <<orchVars, memVars, adminVars, isPaused,
                               preferences, procVars>>
       /\ isPaused' # isPaused
             => /\ Received
                /\ interaction'.command = (IF isPaused' THEN "pause" ELSE "resume")
                /\ interaction'.user \in AdminIds]_vars

\* paused while the data deletion of a user is under way, and a command of
\* that user has just been turned away
C36_Witness ==
    /\ isPaused
    /\ interaction.reply = "paused"
    /\ interaction.command = "data"
    /\ \E o \in memOps : o.cont = "data1" /\ o.user = interaction.user
    /\ \E u \in Users : GetMemory(memories, "individual", u) # <<>>

(***************************************************************************)
(* removeMemoryEntry.                                                      *)
(***************************************************************************)
\* The memory manager with messages and the remove action of the memory
\* command, with any index from -1 to maxEntries.
NextRemove ==
    \/ MemInitialize
    \/ \E t \in {"contextual", "personality"} :
          \E k \in TierKeys(t), d \in DataFor(t) : UpdateMemory(t, k, d)
    \/ \E t \in {"contextual", "personality"} :
          \E k \in TierKeys(t), i \in (-1)..MaxEntries :
             \/ RemoveMemoryEntry(t, k, i)
             \/ RemoveMemoryEntryThrows(t, k, i)
    \/ \E o \in memOps, ok \in BOOLEAN : DbSettle(o, ok)
    \/ Reply

SpecRemove == InitMemory /\ [][NextRemove]_vars

\* C37: a removeMemoryEntry call throws 'Invalid memory index' only for a
\* key without list or an index outside 0..length-1, and then leaves the
\* lists, the database and the awaited operations as they are; a call that
\* goes on to the database has removed the entry at its index from the
\* list of its key and nothing else.
C37_RemoveChecksIndex ==
    [][/\ (memReply = NoReply /\ memReply'.command = "Invalid memory index")
             => /\ \/ memReply'.key \notin DOMAIN memories[memReply'.tier]
                   \/ memReply'.index < 0
                   \/ memReply'.index
                         >= Len(memories[memReply'.tier][memReply'.key])
                /\ UNCHANGED <<memories, mongo, memOps>>
       /\ \A o \in memOps' \ memOps :
             o.op = "deleteOne"
                => LET old == GetMemory(memories, o.tier, o.key)
                       new == GetMemory(memories', o.tier, o.key)
                   IN  /\ \E i \in 1..Len(old) :
                             /\ old[i] = o.entry
                             /\ new = SubSeq(old, 1, i - 1)
                                       \o SubSeq(old, i + 1, Len(old))
                       /\ \A t \in Tiers : \A k \in DOMAIN memories[t] :
                             (t # o.tier \/ k # o.key)
                                => /\ k \in DOMAIN memories'[t]
                                   /\ memories'[t][k] = memories[t][k]
                       /\ mongo' = mongo]_vars

\* the call with index = length on a list of two entries has thrown
C37_Witness ==
    /\ memReply # NoReply
    /\ memReply.command = "Invalid memory index"
    /\ memReply.key \in DOMAIN memories[memReply.tier]
    /\ Len(memories[memReply.tier][memReply.key]) = 2
    /\ memReply.index = 2

(***************************************************************************)
(* gracefulShutdown.                                                       *)
(***************************************************************************)
Events == {"SIGINT", "SIGTERM", "uncaughtException"}

\* the argument the handler of the event passes to gracefulShutdown
ExitCode(event) == IF event = "uncaughtException" THEN 1 ELSE 0

\* a test that never returns early
FlagIgnored == FALSE

\* if (isShuttingDown) return
AlreadyShuttingDown == isShuttingDown

\* process.exit(code)
Exit(code) == [proc EXCEPT !.pc = "exited", !.code = code]

\* The handler of a signal or of an uncaught exception calls
\* gracefulShutdown, which runs up to its first await: it returns at once
\* when a shutdown is under way; otherwise it sets the flag, destroys the
\* client and calls close(), and a throw before the await ends in the
\* catch block with process.exit(1).
Signal(event) ==
    /\ proc.pc # "exited"
    /\ Len(proc.events) < MaxSignals
    /\ LET seen == [proc EXCEPT !.events = Append(@, event)]
       IN  IF AlreadyShuttingDown
           THEN proc' = seen /\ UNCHANGED isShuttingDown
           ELSE /\ isShuttingDown' = TRUE
                /\ \E thrown \in BOOLEAN :
                      proc' = IF thrown
                              THEN [seen EXCEPT !.pc = "exited", !.code = 1,
                                                !.runs = @ + 1,
                                                !.destroyed = @ + 1]
                              ELSE [seen EXCEPT !.pc = "closing",
                                                !.code = ExitCode(event),
                                                !.runs = @ + 1,
                                                !.destroyed = @ + 1,
                                                !.closed = @ + 1]
    /\ UNCHANGED <<orchVars, memVars, adminVars, cmdVars, rt>>

\* close() settles: when it resolves saveState() is called, which can
\* throw before its await.
CloseSettles(ok) ==
    /\ proc.pc = "closing"
    /\ \E thrown \in BOOLEAN :
          proc' = IF ok /\ ~thrown
                  THEN [proc EXCEPT !.pc = "saving", !.saved = @ + 1]
                  ELSE Exit(1)
    /\ UNCHANGED <<orchVars, memVars, adminVars, cmdVars, isShuttingDown, rt>>

\* saveState() settles: process.exit(code), or process.exit(1) from the
\* catch block.
SaveSettles(ok) ==
    /\ proc.pc = "saving"
    /\ proc' = IF ok THEN Exit(proc.code) ELSE Exit(1)
    /\ UNCHANGED <<orchVars, memVars, adminVars, cmdVars, isShuttingDown, rt>>

NextShutdown ==
    \/ \E e \in Events : Signal(e)
    \/ \E ok \in BOOLEAN : CloseSettles(ok)
    \/ \E ok \in BOOLEAN : SaveSettles(ok)

SpecShutdown == InitMemory /\ [][NextShutdown]_vars

\* C38: the shutdown sequence starts at most once in a process, and each
\* of its steps (destroy the client, close the database, save the memory
\* state) runs at most once, whatever events arrive while it is under way.
C38_ShutdownRunsOnce ==
    /\ proc.runs <= 1
    /\ proc.destroyed <= 1
    /\ proc.closed <= 1
    /\ proc.saved <= 1
    /\ isShuttingDown <=> proc.runs = 1

\* a second signal and an uncaught exception arrived while the shutdown
\* was awaiting the database; it is now saving the memory state
C38_Witness ==
    /\ proc.pc = "saving"
    /\ Len(proc.events) = 3
    /\ proc.events[2] \in {"SIGINT", "SIGTERM"}
    /\ proc.events[3] = "uncaughtException"
    /\ proc.runs = 1

(***************************************************************************)
(* retry(fn, maxAttempts, delay).  rt.calls holds the outcome of every     *)
(* call of fn in order ("pending" while the call is awaited), rt.waits the *)
(* delays slept between the calls.                                         *)
(***************************************************************************)
Results == {"v1", "v2"}
Errors == {"e1", "e2"}
Delays == {DefaultDelay, 2 * DefaultDelay}

\* for (...; attempt <= maxAttempts + 1; ...)
InLoopOneMore(attempt, maxAttempts) == attempt <= maxAttempts + 1

\* for (...; attempt <= maxAttempts; ...)
InLoop(attempt, maxAttempts) == attempt <= maxAttempts

\* the head of the loop with the counter at attempt: the body calls fn, or
\* the loop is left and lastError is thrown
LoopHead(r, attempt) ==
    IF InLoop(attempt, r.maxAttempts)
    THEN [r EXCEPT !.attempt = attempt, !.pc = "calling",
                   !.calls = Append(@, "pending")]
    ELSE [r EXCEPT !.attempt = attempt, !.pc = "thrown",
                   !.outcome = r.lastError]

\* retry is called; it runs up to the first await
Retry(maxAttempts, delay) ==
    /\ rt.pc = "idle"
    /\ rt' = LoopHead([rt EXCEPT !.maxAttempts = maxAttempts,
                                 !.delay = delay], 1)
    /\ UNCHANGED <<orchVars, memVars, adminVars, cmdVars, isShuttingDown, proc>>

\* the awaited call of fn fulfils with a result or rejects with an error
FnSettles(ok, value) ==
    /\ rt.pc = "calling"
    /\ LET settled == [rt EXCEPT !.calls[Len(rt.calls)] = value]
           caught == [settled EXCEPT !.lastError = value]
       IN  rt' = IF ok
                 THEN [settled EXCEPT !.pc = "returned", !.outcome = value]
                 ELSE IF rt.attempt < rt.maxAttempts
                      THEN [caught EXCEPT !.pc = "waiting",
                               !.waits = Append(@, rt.delay * rt.attempt)]
                      ELSE LoopHead(caught, rt.attempt + 1)
    /\ UNCHANGED <<orchVars, memVars, adminVars, cmdVars, isShuttingDown, proc>>

\* the timer of the delay fires
DelayElapses ==
    /\ rt.pc = "waiting"
    /\ rt' = LoopHead(rt, rt.attempt + 1)
    /\ UNCHANGED <<orchVars, memVars, adminVars, cmdVars, isShuttingDown, proc>>

NextRetry ==
    \/ \E m \in 0..MaxRetryAttempts, d \in Delays : Retry(m, d)
    \/ \E v \in Results : FnSettles(TRUE, v)
    \/ \E e \in Errors : FnSettles(FALSE, e)
    \/ DelayElapses

\* every call of fn settles and every timer fires
SpecRetry ==
    /\ InitMemory
    /\ [][NextRetry]_vars
    /\ WF_vars(\E v \in Results \cup Errors : FnSettles(v \in Results, v))
    /\ WF_vars(DelayElapses)

RetryDone == rt.pc \in {"returned", "thrown"}

\* C39: with maxAttempts >= 1, retry calls fn at most maxAttempts times;
\* it returns the result of the first call that succeeds and makes no call
\* after it; when all maxAttempts calls have failed it throws the error of
\* the last one; and once started it ends, returning or throwing.
C39_RetryBoundedFirstSuccessLastError ==
    /\ [](rt.maxAttempts >= 1 =>
            /\ Len(rt.calls) <= rt.maxAttempts
            /\ \A i \in 1..Len(rt.calls) - 1 : rt.calls[i] \in Errors
            /\ rt.pc = "returned" =>
                    /\ rt.calls[Len(rt.calls)] \in Results
                    /\ rt.outcome = rt.calls[Len(rt.calls)]
            /\ rt.pc = "thrown" =>
                    /\ Len(rt.calls) = rt.maxAttempts
                    /\ rt.calls[rt.maxAttempts] \in Errors
                    /\ rt.outcome = rt.calls[rt.maxAttempts])
    /\ [][RetryDone => rt' = rt]_vars
    /\ (rt.pc = "calling" /\ rt.maxAttempts >= 1) ~> RetryDone

\* three calls failed, the first and the last with different errors, and
\* retry has thrown
C39_Witness ==
    /\ rt.pc = "thrown"
    /\ rt.maxAttempts = DefaultAttempts
    /\ rt.calls = <<"e1", "e1", "e2">>
    /\ rt.outcome = "e2"
    /\ rt.waits = <<rt.delay, 2 * rt.delay>>

====
